---- MODULE Spec2Model ----
(***************************************************************************)
(* ListaZakupow: the PHP backend of a per-user shopping list and its       *)
(* browser client (lista.js).                                              *)
(*                                                                         *)
(* State: the users table, the shopping_items table, their AUTO_INCREMENT  *)
(* counters, the PHP session of one browser (cookie jar), the clock read   *)
(* by NOW(), the last request and the response to it; and, of the page in  *)
(* the browser, the application's variables, the web storage, the display  *)
(* of the login section and the registration form's password.  A handler   *)
(* of the client is an action that takes the outcome of the request it     *)
(* makes from the handler of the server.                                   *)
(*                                                                         *)
(* Every request handler is an operator from its input (query parameters   *)
(* and JSON body) to the set of outcomes it can produce in the current     *)
(* state: the tables, counters and session it leaves and the response it   *)
(* sends.  The action of a handler records the request and takes one of    *)
(* these outcomes, so a property of a request is a property of a step.     *)
(*                                                                         *)
(* The repository holds two versions of the items endpoint: src/items.php  *)
(* (validated single-item PUT) and src/unnamed/part_000 (unvalidated       *)
(* single-item PUT, bulk replace); GET, POST and DELETE are the same text  *)
(* in both.                                                                *)
(***************************************************************************)
EXTENDS Integers, Sequences, FiniteSets, TLC

\* ---------------------------------------------------------------- bounds
\* Highest value AUTO_INCREMENT of shopping_items may hand out.
MaxItemId == 2
\* Last second of the clock behind NOW().
MaxTime == 1
\* Number of single-item updates (PUT ?id=ID that changes a row) in one behaviour.
MaxUpdates == 1
\* Longest password typed into the registration form.
MaxPassword == 8
\* Handlers followed through their await in one behaviour.
MaxCalls == 2
\* The client's clock runs for MaxWeeks weeks.
MaxWeeks == 1
\* Where lockouts are followed, the client's clock runs for MaxLockouts lockout times.
MaxLockouts == 2

\* SQL NULL / an absent query parameter / no session user.
NULL == 0 - 1

\* ------------------------------------------------------- PHP primitives
WS == {" "}

RECURSIVE LTrim(_)
LTrim(s) == IF s # <<>> /\ Head(s) \in WS THEN LTrim(Tail(s)) ELSE s

RECURSIVE RTrim(_)
RTrim(s) == IF s # <<>> /\ s[Len(s)] \in WS THEN RTrim(SubSeq(s, 1, Len(s) - 1)) ELSE s

\* trim(): strips whitespace from both ends of a string (a sequence of characters).
Trim(s) == RTrim(LTrim(s))

\* empty() on a string: TRUE for "" and for "0".
Empty(s) == s = <<>> \/ s = <<"0">>

\* $data[$k] ?? $default
Coalesce(data, k, default) == IF k \in DOMAIN data THEN data[k] ELSE default

\* isset($data[$k])
Isset(data, k) == k \in DOMAIN data

\* $item['k'] read without ??: an undefined key reads as null (with a warning).
\* intval(null) = 0, trim(null) = "".
IntvalKey(data, k) == IF k \in DOMAIN data THEN data[k] ELSE 0

\* password_hash / password_verify: a hash verifies exactly the password it was made from.
password_hash(p) == <<"hash", p>>
password_verify(p, h) == h = password_hash(p)

\* ------------------------------------------------------------- inputs
S_a == <<"a">>
S_b == <<"b">>
S_ann == <<"a", "n", "n">>
S_pw == <<"p", "w">>
S_Secret == <<"S", "e", "c", "r", "e", "t", "1", "!">>

\* JSON bodies sent to login.php and register.php.
Credentials ==
    { [username |-> S_a, password |-> S_Secret],
      [username |-> S_b, password |-> S_Secret],
      [username |-> <<"a", " ">>, password |-> S_Secret],
      [username |-> S_a, password |-> S_pw],
      [username |-> S_a] }

\* A second password of the required length.
S_Other == <<"O", "t", "h", "e", "r", "2", "?", "x">>

\* The bodies of the specification of registration and login.
AuthCredentials == Credentials \cup { [username |-> S_a, password |-> S_Other] }

validUnits == {"szt", "kg", "g", "l", "ml", "opak", "inna"}

Milk == [text |-> <<"m">>, quantity |-> 2, unit |-> "l"]
Eggs == [text |-> <<"e">>, quantity |-> 1, unit |-> "kg", completed |-> TRUE]
Padded == [text |-> <<" ", "m">>, unit |-> "szt", description |-> <<"d", " ">>]
Spaced == [text |-> <<" ", "m">>, quantity |-> 1, unit |-> "szt", description |-> <<"d", " ">>]
NoQuantity == [text |-> <<"m">>, unit |-> "g"]
Zero == [text |-> <<"0">>, quantity |-> 1, unit |-> "szt"]
Blank == [text |-> <<" ">>, quantity |-> 1, unit |-> "szt"]
ZeroQuantity == [text |-> <<"m">>, quantity |-> 0, unit |-> "kg"]
BadUnit == [text |-> <<"e">>, quantity |-> 1, unit |-> "xyz"]

\* JSON objects describing an item, as sent to POST and inside a replace batch.
ItemBodies == { Milk, Eggs, Padded, Zero, Blank, ZeroQuantity, BadUnit }

\* JSON objects sent to PUT ?id=ID.
UpdateBodies ==
    { <<>>,
      [text |-> <<>>],
      [text |-> <<"e", " ">>, quantity |-> 3],
      [quantity |-> 0],
      [description |-> <<" ", "d">>, unit |-> "xyz"],
      [completed |-> TRUE],
      [completed |-> FALSE] }

\* Bodies of PUT ?action=replace: the items of {items: [...]}.
Batches ==
    { <<>>, <<Milk>>, <<Eggs, Milk>>, <<Spaced>>, <<NoQuantity>>, <<Blank>>,
      <<ZeroQuantity>>, <<BadUnit, Milk>> }

\* The INSERT of a replace that fails: none, the first or the second.
Failures == {0, 1, 2}

\* The requests of the specification of the whole backend (two users, every endpoint).
SomeItemBodies == { Milk, Eggs, Zero }
SomeUpdateBodies == { <<>>, [text |-> <<>>], [completed |-> TRUE] }
SomeBatches == { <<>>, <<Milk>>, <<Eggs, Milk>>, <<ZeroQuantity>> }

\* Values of the query parameter action ("" when it is absent).
Actions == {"", "replace", "remove_checked", "clear"}

\* The operations of the items endpoint.
ItemOps == {"GET", "POST", "PUT", "PUT items.php", "DELETE"}

\* ------------------------------------------------------------- state
VARIABLES users, nextUserId, shopping_items, nextItemId, SESSION, now, nUpdates, req, resp

\* The browser (lista.js): the application's variables (currentUser is the username,
\* <<>> for null), the session entry of the two web storages (a set: empty or the one
\* entry), the display of the login section (the application section has the other
\* one), navigator.onLine, Date.now(), and the handler that ran last (call).
VARIABLES currentUser, shoppingList, failedLoginAttempts, lockoutUntil,
          sessionStorage, localStorage, authSection, onLine, Date_now, call

\* The registration form: the password field, and the result of checkStrength that the
\* strength bar and the feedback line show.
VARIABLES registerPassword, passwordFeedback

formVars == <<registerPassword, passwordFeedback>>

\* The list controller's mode and the copy of the list taken when editing starts; and,
\* where handlers are followed through their await, the handlers that reached it, in the
\* order they were started: what each holds in its locals, how far its request has got
\* ("sent", "answered", "settled") and what came back.
VARIABLES isEditingMode, originalList, calls

editVars == <<isEditingMode, originalList>>

serverVars == <<users, nextUserId, shopping_items, nextItemId, SESSION, now, nUpdates, req, resp>>

clientVars == <<currentUser, shoppingList, failedLoginAttempts, lockoutUntil,
                sessionStorage, localStorage, authSection, onLine, Date_now, call, formVars,
                editVars, calls>>

vars == <<serverVars, clientVars>>

ItemIds == 1..MaxItemId

\* The request being answered: the script and method (op), the query parameters id and
\* action, the body (json_ok: it is well-formed JSON) and, for a replace, the INSERT that
\* fails.
Request(op, itemId, action, json_ok, data, fail) ==
    [op |-> op, itemId |-> itemId, action |-> action, json_ok |-> json_ok, data |-> data,
     fail |-> fail]

\* sendJsonResponse($data, $statusCode): the status and the JSON body's members
\* (detail: the exception text appended to an error message, "" when there is none).
\* uid is the $userId the handler ran as; it is not part of the body.
sendJsonResponse(status, error, message, rows, count, uid, username) ==
    [status |-> status, error |-> error, detail |-> "", message |-> message,
     rows |-> rows, count |-> count, uid |-> uid, username |-> username]

\* An error response whose text ends in $e->getMessage().
DetailedErrorResponse(error, detail, status, uid) ==
    [sendJsonResponse(status, error, "", <<>>, NULL, uid, <<>>) EXCEPT !.detail = detail]

ErrorResponse(error, status, uid) ==
    sendJsonResponse(status, error, "", <<>>, NULL, uid, <<>>)

MessageResponse(message, count, uid) ==
    sendJsonResponse(200, "", message, <<>>, count, uid, <<>>)

RowsResponse(rows, status, uid) ==
    sendJsonResponse(status, "", "", rows, NULL, uid, <<>>)

\* What a request leaves behind: the tables, the counters, the session and the response.
Outcome(u, nu, items, ni, session, r) ==
    [users |-> u, nextUserId |-> nu, shopping_items |-> items, nextItemId |-> ni,
     SESSION |-> session, resp |-> r]

\* A request that only answers.
Answer(r) == Outcome(users, nextUserId, shopping_items, nextItemId, SESSION, r)

\* A request of the items endpoint that leaves shopping_items as items.
ItemsOutcome(items, ni, r) == Outcome(users, nextUserId, items, ni, SESSION, r)

\* A handler of the client has run: the API methods it called, in order, and the
\* message of the error the last of them threw ("" when it returned).
Called(fn, requests, error) == [fn |-> fn, requests |-> requests, error |-> error]

Init ==
    /\ users = {}
    /\ nextUserId = 1
    /\ shopping_items = {}
    /\ nextItemId = 1
    /\ SESSION = NULL
    /\ now = 0
    /\ nUpdates = 0
    /\ resp = sendJsonResponse(0, "", "", <<>>, NULL, NULL, <<>>)
    /\ req = Request("", NULL, "", TRUE, <<>>, 0)
    /\ currentUser = <<>>
    /\ shoppingList = <<>>
    /\ failedLoginAttempts = 0
    /\ lockoutUntil = 0
    /\ sessionStorage = {}
    /\ localStorage = {}
    /\ authSection = "block"
    /\ onLine = TRUE
    /\ Date_now = 0
    /\ call = Called("", <<>>, "")
    /\ registerPassword = <<>>
    /\ passwordFeedback = [points |-> 0, strength |-> "", feedback |-> <<>>]
    /\ isEditingMode = FALSE
    /\ originalList = <<>>
    /\ calls = <<>>

\* A guard that lets every request through.
isLoggedIn_always == TRUE

\* config.php
isLoggedIn == SESSION # NULL
getCurrentUserId == SESSION

\* A login that tells an unknown username from a wrong password.
login_enumerable(json_ok, data) ==
    LET d == IF json_ok THEN data ELSE <<>>
        username == Trim(Coalesce(d, "username", <<>>))
        password == Coalesce(d, "password", <<>>)
        found == { u \in users : u.username = username }
    IN  IF Empty(username) \/ Empty(password)
        THEN { Answer(ErrorResponse("Username and password are required", 400, NULL)) }
        ELSE IF found = {}
        THEN { Answer(ErrorResponse("Unknown username", 401, NULL)) }
        ELSE IF \A u \in found : ~password_verify(password, u.password)
        THEN { Answer(ErrorResponse("Invalid username or password", 401, NULL)) }
        ELSE { Outcome(users, nextUserId, shopping_items, nextItemId, user.id,
                       sendJsonResponse(200, "", "Login successful", <<>>, NULL,
                                        user.id, user.username)) : user \in found }

\* ------------------------------------------------------------ login.php
login(json_ok, data) ==
    LET d == IF json_ok THEN data ELSE <<>>
        username == Trim(Coalesce(d, "username", <<>>))
        password == Coalesce(d, "password", <<>>)
        found == { u \in users : u.username = username }
    IN  IF Empty(username) \/ Empty(password)
        THEN { Answer(ErrorResponse("Username and password are required", 400, NULL)) }
        ELSE IF found = {} \/ \A u \in found : ~password_verify(password, u.password)
        THEN { Answer(ErrorResponse("Invalid username or password", 401, NULL)) }
        ELSE { Outcome(users, nextUserId, shopping_items, nextItemId, user.id,
                       sendJsonResponse(200, "", "Login successful", <<>>, NULL,
                                        user.id, user.username)) : user \in found }

\* A register that skips the SELECT for an existing username.
register_unchecked(json_ok, data) ==
    LET username == Trim(Coalesce(data, "username", <<>>))
        password == Coalesce(data, "password", <<>>)
    IN  IF ~json_ok \/ Empty(username) \/ Empty(password) \/ Len(password) < 8
        THEN { Answer(ErrorResponse("Invalid input", 400, NULL)) }
        ELSE { Outcome(users \cup { [id |-> nextUserId, username |-> username,
                                     password |-> password_hash(password)] },
                       nextUserId + 1, shopping_items, nextItemId, nextUserId,
                       sendJsonResponse(200, "", "User registered successfully",
                                        <<>>, NULL, nextUserId, username)) }

\* A register that creates the user and leaves the session as it was.
register_no_session(json_ok, data) ==
    LET username == Trim(Coalesce(data, "username", <<>>))
        password == Coalesce(data, "password", <<>>)
    IN  IF ~json_ok \/ Empty(username) \/ Empty(password) \/ Len(password) < 8
        THEN { Answer(ErrorResponse("Invalid input", 400, NULL)) }
        ELSE IF \E u \in users : u.username = username
        THEN { Answer(ErrorResponse("Username already exists", 409, NULL)) }
        ELSE { Outcome(users \cup { [id |-> nextUserId, username |-> username,
                                     password |-> password_hash(password)] },
                       nextUserId + 1, shopping_items, nextItemId, SESSION,
                       sendJsonResponse(200, "", "User registered successfully",
                                        <<>>, NULL, nextUserId, username)) }

\* ------------------------------------------------- register.php (part_001)
register(json_ok, data) ==
    LET username == Trim(Coalesce(data, "username", <<>>))
        password == Coalesce(data, "password", <<>>)
    IN  IF ~json_ok
        THEN { Answer(ErrorResponse("Invalid JSON input", 400, NULL)) }
        ELSE IF Empty(username) \/ Empty(password)
        THEN { Answer(ErrorResponse("Username and password are required", 400, NULL)) }
        ELSE IF Len(password) < 8
        THEN { Answer(ErrorResponse("Password must be at least 8 characters long",
                                    400, NULL)) }
        ELSE IF \E u \in users : u.username = username
        THEN { Answer(ErrorResponse("Username already exists", 409, NULL)) }
        ELSE { Outcome(users \cup { [id |-> nextUserId, username |-> username,
                                     password |-> password_hash(password)] },
                       nextUserId + 1, shopping_items, nextItemId, nextUserId,
                       sendJsonResponse(200, "", "User registered successfully",
                                        <<>>, NULL, nextUserId, username)) }

\* ----------------------------------------------------------- logout.php
logout(method) ==
    IF method # "POST"
    THEN { Answer(ErrorResponse("Invalid request method", 405, NULL)) }
    ELSE \* session_destroy()
         { Outcome(users, nextUserId, shopping_items, nextItemId, NULL,
                   MessageResponse("Logout successful", NULL, NULL)) }

\* -------------------------------------------- items endpoint: shared parts
\* The columns of SELECT id, text, ..., updated_at (user_id is not selected).
SelectColumns ==
    {"id", "text", "quantity", "unit", "description", "completed",
     "added_at", "completed_at", "updated_at"}

Select(row) == [c \in SelectColumns |-> row[c]]

\* ORDER BY added_at DESC only.
OrderedBefore_recent(r, q) == r.added_at >= q.added_at

\* ORDER BY completed, added_at DESC: r may stand before q.
OrderedBefore(r, q) ==
    \/ (~r.completed /\ q.completed)
    \/ (r.completed = q.completed /\ r.added_at >= q.added_at)

\* Every order in which the rows may be returned (rows that tie come in any order).
OrderBy(rows) ==
    { s \in [1..Cardinality(rows) -> rows] :
        /\ \A i, j \in DOMAIN s : i # j => s[i] # s[j]
        /\ \A i, j \in DOMAIN s : i < j => OrderedBefore(s[i], s[j]) }

\* A query that forgets its WHERE clause.
WhereUser_unfiltered(userId) == shopping_items

\* WHERE user_id = :user_id
WhereUser(userId) == { r \in shopping_items : r.user_id = userId }

\* WHERE id = :id AND user_id = :user_id
WhereIdUser(itemId, userId) ==
    { r \in shopping_items : r.id = itemId /\ r.user_id = userId }

\* WHERE id = :id
WhereId(itemId) == { r \in shopping_items : r.id = itemId }

\* A query that forgets AND completed = 1.
WhereUserCompleted_all(userId) == { r \in shopping_items : r.user_id = userId }

\* WHERE user_id = :user_id AND completed = 1
WhereUserCompleted(userId) ==
    { r \in shopping_items : r.user_id = userId /\ r.completed }

\* INSERT INTO shopping_items (user_id, text, quantity, unit, description, completed,
\* added_at) VALUES (..., NOW()): the columns not named take their default, NULL.
InsertRow(id, userId, text, quantity, unit, description, completed) ==
    [id |-> id, user_id |-> userId, text |-> text, quantity |-> quantity, unit |-> unit,
     description |-> description, completed |-> completed, added_at |-> now,
     completed_at |-> NULL, updated_at |-> NULL]

\* if (!isLoggedIn()) { sendJsonResponse(['error' => 'Authentication required'], 401); }
AuthRequired == { Answer(ErrorResponse("Authentication required", 401, NULL)) }

\* case 'GET'
itemsGET ==
    IF ~isLoggedIn THEN AuthRequired
    ELSE { Answer(RowsResponse([i \in DOMAIN items |-> Select(items[i])], 200,
                               getCurrentUserId)) :
             items \in OrderBy(WhereUser(getCurrentUserId)) }

\* case 'POST'
itemsPOST(json_ok, data) ==
    LET userId == getCurrentUserId
        text == Trim(Coalesce(data, "text", <<>>))
        quantity == Coalesce(data, "quantity", 1)
        unit == Coalesce(data, "unit", "szt")
        description == Trim(Coalesce(data, "description", <<>>))
        completed == Coalesce(data, "completed", FALSE)
        item == InsertRow(nextItemId, userId, text, quantity, unit, description, completed)
    IN  IF ~isLoggedIn THEN AuthRequired
        ELSE IF ~json_ok
        THEN { Answer(ErrorResponse("Invalid JSON data", 400, userId)) }
        ELSE IF Empty(text)
        THEN { Answer(ErrorResponse("Item text is required", 400, userId)) }
        ELSE IF quantity < 1
        THEN { Answer(ErrorResponse("Quantity must be at least 1", 400, userId)) }
        ELSE { ItemsOutcome(shopping_items \cup {item}, nextItemId + 1,
                            RowsResponse(<<Select(item)>>, 201, userId)) }

\* The branches of case 'DELETE'.
itemsDELETE_as(itemId, action) ==
    LET userId == getCurrentUserId
    IN  IF itemId # NULL
        THEN { ItemsOutcome(shopping_items \ WhereIdUser(itemId, userId), nextItemId,
                            IF Cardinality(WhereIdUser(itemId, userId)) = 0
                            THEN ErrorResponse("Item not found", 404, userId)
                            ELSE MessageResponse("Item deleted successfully", NULL, userId)) }
        ELSE IF action = "remove_checked"
        THEN { ItemsOutcome(shopping_items \ WhereUserCompleted(userId), nextItemId,
                            MessageResponse("items deleted successfully",
                                            Cardinality(WhereUserCompleted(userId)), userId)) }
        ELSE IF action = "clear"
        THEN { ItemsOutcome(shopping_items \ WhereUser(userId), nextItemId,
                            MessageResponse("items deleted successfully",
                                            Cardinality(WhereUser(userId)), userId)) }
        ELSE { Answer(ErrorResponse("Invalid delete action", 400, userId)) }

\* case 'DELETE'
itemsDELETE(itemId, action) ==
    IF ~isLoggedIn THEN AuthRequired
    ELSE itemsDELETE_as(itemId, action)

\* ------------------------------------- part_000: case 'PUT' (update, replace)
\* array_flip(['text', 'quantity', 'unit', 'description', 'completed'])
UpdatableKeys == {"text", "quantity", "unit", "description", "completed"}

\* UPDATE shopping_items SET updated_at = NOW(), k1 = ?, k2 = ? ... applied to one row.
SetKeys(row, updates, data) ==
    [c \in DOMAIN row |->
        IF c \in updates THEN data[c]
        ELSE IF c = "updated_at" THEN now
        ELSE row[c]]

\* $stmt->rowCount() of an UPDATE: the rows the statement changed.
rowCount(before, after) == Cardinality(before \ after)

\* Single item update: if ($itemId) { ... }
itemsPUT_update(itemId, json_ok, data) ==
    LET userId == getCurrentUserId
        updates == DOMAIN data \cap UpdatableKeys
        matched == WhereIdUser(itemId, userId)
        written == { SetKeys(r, updates, data) : r \in matched }
    IN  IF ~json_ok
        THEN \* $data is null: array_intersect_key() throws a TypeError nothing catches
             \* (PHP 8), or warns and the statement fails on execute (PHP 7).
             { Answer(ErrorResponse("", 500, userId)),
               Answer(ErrorResponse("Database error occurred", 500, userId)) }
        ELSE IF updates = {}
        THEN \* 'SET updated_at = NOW(),  = ? WHERE ...' is no statement: PDOException.
             { Answer(ErrorResponse("Database error occurred", 500, userId)) }
        ELSE { ItemsOutcome((shopping_items \ matched) \cup written, nextItemId,
                            IF rowCount(matched, written) = 0
                            THEN ErrorResponse("Item not found", 404, userId)
                            ELSE MessageResponse("Item updated successfully", NULL,
                                                 userId)) }

\* The checks of one item of a replace batch: the error it is rejected with, "" if none.
ValidateItem(item) ==
    LET text == Trim(Coalesce(item, "text", <<>>))
        quantity == Coalesce(item, "quantity", 1)
    IN  IF Empty(text) THEN "Item text is required for all items"
        ELSE IF quantity < 1 THEN "Quantity must be at least 1 for all items"
        ELSE IF Coalesce(item, "unit", "") \notin validUnits
        THEN "Invalid unit for one or more items"
        ELSE ""

\* foreach ($items as $item) { validate }: the error of the first item that fails.
ValidateItems(items) ==
    LET bad == { i \in DOMAIN items : ValidateItem(items[i]) # "" }
    IN  IF bad = {} THEN ""
        ELSE ValidateItem(items[CHOOSE i \in bad : \A j \in bad : i <= j])

\* An INSERT that binds completed to 0 whatever the item says.
ReplaceRow_incomplete(items, i, userId) ==
    InsertRow(nextItemId + i - 1, userId, Trim(items[i].text),
              IntvalKey(items[i], "quantity"), Coalesce(items[i], "unit", "szt"),
              Trim(Coalesce(items[i], "description", <<>>)), FALSE)

\* The row bindValue()/execute() inserts for the i-th item of the batch.
ReplaceRow(items, i, userId) ==
    InsertRow(nextItemId + i - 1, userId, Trim(items[i].text),
              IntvalKey(items[i], "quantity"), Coalesce(items[i], "unit", "szt"),
              Trim(Coalesce(items[i], "description", <<>>)),
              Coalesce(items[i], "completed", FALSE))

\* A catch block that forgets to roll back.
rollBack_missing(atBegin, inTransaction) == inTransaction

\* $db->rollBack(): the table as it was at beginTransaction().
rollBack(atBegin, inTransaction) == atBegin

\* Bulk replace: elseif ($action === 'replace') { ... }.  fail = 0: every statement
\* succeeds; fail = i > 0: the i-th INSERT throws.
itemsPUT_replace(json_ok, data, fail) ==
    LET userId == getCurrentUserId
        items == Coalesce(data, "items", <<>>)
        deleted == shopping_items \ WhereUser(userId)
        inserted(n) == { ReplaceRow(items, i, userId) : i \in 1..n }
    IN  IF ~json_ok
        THEN { Answer(ErrorResponse("Invalid JSON data", 400, userId)) }
        ELSE IF ValidateItems(items) # ""
        THEN { Answer(ErrorResponse(ValidateItems(items), 400, userId)) }
        ELSE IF fail = 0
        THEN { ItemsOutcome(deleted \cup inserted(Len(items)), nextItemId + Len(items),
                            MessageResponse("List replaced successfully", NULL, userId)) }
        ELSE \* AUTO_INCREMENT values handed out inside the transaction are not given back.
             { ItemsOutcome(rollBack(shopping_items, deleted \cup inserted(fail - 1)),
                            nextItemId + fail - 1,
                            DetailedErrorResponse("Failed to replace list: ", "SQLSTATE",
                                                  500, userId)) }

\* case 'PUT' of part_000.  The break of the replace branch is the only one: a PUT with
\* neither id nor action=replace runs on into case 'DELETE'.
itemsPUT(itemId, action, json_ok, data, fail) ==
    IF ~isLoggedIn THEN AuthRequired
    ELSE IF itemId # NULL THEN itemsPUT_update(itemId, json_ok, data)
    ELSE IF action = "replace" THEN itemsPUT_replace(json_ok, data, fail)
    ELSE itemsDELETE_as(itemId, action)

\* ----------------------------------------------------- items.php: case 'PUT'
\* A SET list without updated_at = NOW().
SetFields_stale(row, data) ==
    [c \in DOMAIN row |->
        IF c \in {"text", "description"} /\ Isset(data, c) THEN Trim(data[c])
        ELSE IF c \in {"quantity", "unit", "completed"} /\ Isset(data, c) THEN data[c]
        ELSE IF c = "completed_at" /\ Isset(data, "completed")
             THEN (IF data.completed THEN now ELSE NULL)
        ELSE row[c]]

\* The SET list built from the fields present in the body, applied to one row.
SetFields(row, data) ==
    [c \in DOMAIN row |->
        IF c = "text" /\ Isset(data, "text") THEN Trim(data.text)
        ELSE IF c = "quantity" /\ Isset(data, "quantity") THEN data.quantity
        ELSE IF c = "unit" /\ Isset(data, "unit") THEN data.unit
        ELSE IF c = "description" /\ Isset(data, "description") THEN Trim(data.description)
        ELSE IF c = "completed" /\ Isset(data, "completed") THEN data.completed
        ELSE IF c = "completed_at" /\ Isset(data, "completed")
             THEN (IF data.completed THEN now ELSE NULL)
        ELSE IF c = "updated_at" THEN now
        ELSE row[c]]

items_php_PUT(itemId, json_ok, data) ==
    LET userId == getCurrentUserId
        matched == WhereId(itemId)
    IN  IF ~isLoggedIn THEN AuthRequired
        ELSE IF itemId = NULL
        THEN { Answer(ErrorResponse("Valid item ID is required", 400, userId)) }
        ELSE IF ~json_ok
        THEN { Answer(ErrorResponse("Invalid JSON data", 400, userId)) }
        ELSE IF WhereIdUser(itemId, userId) = {}
        THEN { Answer(ErrorResponse("Item not found", 404, userId)) }
        ELSE IF Isset(data, "text") /\ Empty(Trim(data.text))
        THEN { Answer(ErrorResponse("Item text cannot be empty", 400, userId)) }
        ELSE IF Isset(data, "quantity") /\ data.quantity < 1
        THEN { Answer(ErrorResponse("Quantity must be at least 1", 400, userId)) }
        ELSE IF DOMAIN data \cap UpdatableKeys = {}
        THEN { Answer(ErrorResponse("No fields to update", 400, userId)) }
        ELSE { ItemsOutcome((shopping_items \ matched) \cup { SetFields(r, data) : r \in matched },
                            nextItemId,
                            MessageResponse("Item updated successfully", NULL, userId)) }

\* ---------------------------------------------------------------- actions
\* The request is answered: its outcome becomes the state of the server.
Respond(o) ==
    /\ users' = o.users
    /\ nextUserId' = o.nextUserId
    /\ shopping_items' = o.shopping_items
    /\ nextItemId' = o.nextItemId
    /\ SESSION' = o.SESSION
    /\ resp' = o.resp
    /\ o.nextItemId <= MaxItemId + 1
    /\ UNCHANGED now

\* A request made by hand (no handler of lista.js runs).
Apply(o) ==
    /\ Respond(o)
    /\ UNCHANGED clientVars

\* A single-item update that changes a row counts against MaxUpdates.
ApplyUpdate(o) ==
    /\ Apply(o)
    /\ IF o.shopping_items # shopping_items
       THEN nUpdates < MaxUpdates /\ nUpdates' = nUpdates + 1
       ELSE UNCHANGED nUpdates

\* The clock advances between requests.
Tick ==
    /\ now < MaxTime
    /\ now' = now + 1
    /\ UNCHANGED <<users, nextUserId, shopping_items, nextItemId, SESSION, nUpdates, req, resp>>
    /\ UNCHANGED clientVars

Login(json_ok, data) ==
    /\ req' = Request("login", NULL, "", json_ok, data, 0)
    /\ \E o \in login(json_ok, data) : Apply(o) /\ UNCHANGED nUpdates

Register(json_ok, data) ==
    /\ req' = Request("register", NULL, "", json_ok, data, 0)
    /\ \E o \in register(json_ok, data) : Apply(o) /\ UNCHANGED nUpdates

Logout(method) ==
    /\ req' = Request(IF method = "POST" THEN "logout" ELSE "GET logout", NULL, "", TRUE, <<>>, 0)
    /\ \E o \in logout(method) : Apply(o) /\ UNCHANGED nUpdates

GetItems ==
    /\ req' = Request("GET", NULL, "", TRUE, <<>>, 0)
    /\ \E o \in itemsGET : Apply(o) /\ UNCHANGED nUpdates

PostItem(json_ok, data) ==
    /\ req' = Request("POST", NULL, "", json_ok, data, 0)
    /\ \E o \in itemsPOST(json_ok, data) : Apply(o) /\ UNCHANGED nUpdates

DeleteItems(itemId, action) ==
    /\ req' = Request("DELETE", itemId, action, TRUE, <<>>, 0)
    /\ \E o \in itemsDELETE(itemId, action) : Apply(o) /\ UNCHANGED nUpdates

\* PUT ?id=ID to part_000.
PutUpdate(itemId, json_ok, data) ==
    /\ req' = Request("PUT", itemId, "", json_ok, data, 0)
    /\ \E o \in itemsPUT(itemId, "", json_ok, data, 0) : ApplyUpdate(o)

\* PUT ?action=replace to part_000.
PutReplace(json_ok, items, fail) ==
    /\ req' = Request("PUT", NULL, "replace", json_ok, [items |-> items], fail)
    /\ \E o \in itemsPUT(NULL, "replace", json_ok, [items |-> items], fail) :
          Apply(o) /\ UNCHANGED nUpdates

\* PUT with neither id nor action=replace to part_000.
PutOther(action) ==
    /\ req' = Request("PUT", NULL, action, TRUE, <<>>, 0)
    /\ \E o \in itemsPUT(NULL, action, TRUE, <<>>, 0) : Apply(o) /\ UNCHANGED nUpdates

\* PUT to items.php.
PutItemsPhp(itemId, json_ok, data) ==
    /\ req' = Request("PUT items.php", itemId, "", json_ok, data, 0)
    /\ \E o \in items_php_PUT(itemId, json_ok, data) : ApplyUpdate(o)

\* The requests to the items endpoint, with bodies from the given sets.
ItemsRequest(itemBodies, updateBodies, batches) ==
    \/ GetItems
    \/ \E json_ok \in BOOLEAN, data \in itemBodies :
          (json_ok \/ data = Milk) /\ PostItem(json_ok, data)
    \/ \E itemId \in ItemIds \cup {NULL}, action \in Actions \ {"replace"} :
          (itemId = NULL \/ action = "") /\ DeleteItems(itemId, action)
    \/ \E itemId \in ItemIds, json_ok \in BOOLEAN, data \in updateBodies :
          (json_ok \/ data = <<>>) /\ PutUpdate(itemId, json_ok, data)
    \/ \E json_ok \in BOOLEAN, items \in batches, fail \in Failures :
          /\ json_ok \/ (items = <<>> /\ fail = 0)
          /\ fail <= Len(items)
          /\ fail = 0 \/ ValidateItems(items) = ""
          /\ PutReplace(json_ok, items, fail)
    \/ \E action \in Actions \ {"replace"} : PutOther(action)
    \/ \E itemId \in ItemIds \cup {NULL}, json_ok \in BOOLEAN, data \in updateBodies :
          (json_ok \/ data = <<>>) /\ PutItemsPhp(itemId, json_ok, data)

\* The whole backend: two users, one browser.
Next ==
    \/ \E json_ok \in BOOLEAN, data \in Credentials :
          (json_ok \/ data = [username |-> S_a]) /\ Login(json_ok, data)
    \/ \E json_ok \in BOOLEAN, data \in Credentials :
          (json_ok \/ data = [username |-> S_a]) /\ Register(json_ok, data)
    \/ \E method \in {"POST", "GET"} : Logout(method)
    \/ ItemsRequest(SomeItemBodies, SomeUpdateBodies, SomeBatches)

Spec == Init /\ [][Next]_vars

\* The list of one user: the user registers, then the items endpoint and the clock.
NextItems ==
    \/ Register(TRUE, [username |-> S_a, password |-> S_Secret])
    \/ Tick
    \/ ItemsRequest(ItemBodies, UpdateBodies, Batches)

SpecItems == Init /\ [][NextItems]_vars

\* ------------------------------------------------------- storage failures
\* What $e->getMessage() of a PDOException may read.
Exceptions == {"SQLSTATE[HY000]: General error", "SQLSTATE[42S02]: Table not found"}

\* A request during which the storage layer throws e.
FailedRequest(op, action, data, fail, e) ==
    [op |-> op, itemId |-> NULL, action |-> action, json_ok |-> TRUE, data |-> data,
     fail |-> fail, exception |-> e]

\* getDB(): new PDO(...) throws; die('Database connection failed: ' . $e->getMessage())
\* ends the script with the status left at 200.
getDB_dies(e) ==
    { Answer(DetailedErrorResponse("Database connection failed: ", e, 200, SESSION)) }

\* login.php when a statement throws: catch (PDOException $e).
login_throws(data, e) ==
    IF Empty(Trim(Coalesce(data, "username", <<>>))) \/ Empty(Coalesce(data, "password", <<>>))
    THEN login(TRUE, data)
    ELSE { Answer(DetailedErrorResponse("Database error: ", e, 500, NULL)) }

\* register.php when a statement throws: catch (PDOException $e).
register_throws(data, e) ==
    IF \/ Empty(Trim(Coalesce(data, "username", <<>>)))
       \/ Empty(Coalesce(data, "password", <<>>))
       \/ Len(Coalesce(data, "password", <<>>)) < 8
    THEN register(TRUE, data)
    ELSE { Answer(ErrorResponse("Database error occurred", 500, NULL)) }

\* The items endpoint when the statement of a GET, POST or DELETE throws: the outer
\* catch (PDOException $e).
items_throws(e) ==
    IF ~isLoggedIn THEN AuthRequired
    ELSE { Answer(ErrorResponse("Database error occurred", 500, getCurrentUserId)) }

\* A replace whose fail-th INSERT throws e: the inner catch (Exception $e).
itemsPUT_replace_throws(data, fail, e) ==
    IF ~isLoggedIn THEN AuthRequired
    ELSE { [o EXCEPT !.resp.detail = IF o.resp.status = 500 THEN e ELSE @] :
             o \in itemsPUT_replace(TRUE, data, fail) }

LoginThrows(data, e) ==
    /\ req' = FailedRequest("login", "", data, 0, e)
    /\ \E o \in login_throws(data, e) : Apply(o) /\ UNCHANGED nUpdates

RegisterThrows(data, e) ==
    /\ req' = FailedRequest("register", "", data, 0, e)
    /\ \E o \in register_throws(data, e) : Apply(o) /\ UNCHANGED nUpdates

ItemsThrows(op, action, e) ==
    /\ req' = FailedRequest(op, action, <<>>, 0, e)
    /\ \E o \in items_throws(e) : Apply(o) /\ UNCHANGED nUpdates

ReplaceThrows(items, fail, e) ==
    /\ req' = FailedRequest("PUT", "replace", [items |-> items], fail, e)
    /\ \E o \in itemsPUT_replace_throws([items |-> items], fail, e) :
          Apply(o) /\ UNCHANGED nUpdates

\* The connection to the database fails.
ConnectFails(op, e) ==
    /\ op \in ItemOps => isLoggedIn
    /\ req' = FailedRequest(op, "", <<>>, 0, e)
    /\ \E o \in getDB_dies(e) : Apply(o) /\ UNCHANGED nUpdates

\* The backend over a storage layer that may fail.
NextStorage ==
    \/ \E data \in {[username |-> S_a, password |-> S_Secret],
                    [username |-> S_b, password |-> S_Secret]} : Register(TRUE, data)
    \/ Logout("POST")
    \/ \E data \in {Milk, Eggs} : PostItem(TRUE, data)
    \/ GetItems
    \/ \E data \in Credentials, e \in Exceptions :
          (Isset(data, "password") /\ Len(data.password) >= 8) /\ LoginThrows(data, e)
    \/ \E data \in Credentials, e \in Exceptions :
          (Isset(data, "password") /\ Len(data.password) >= 8) /\ RegisterThrows(data, e)
    \/ \E op \in {"GET", "POST", "DELETE"}, e \in Exceptions :
          ItemsThrows(op, IF op = "DELETE" THEN "clear" ELSE "", e)
    \/ \E items \in {<<Milk>>, <<Eggs, Milk>>}, fail \in {1, 2}, e \in Exceptions :
          fail <= Len(items) /\ ReplaceThrows(items, fail, e)
    \/ \E op \in {"login", "register", "GET", "PUT"}, e \in Exceptions : ConnectFails(op, e)

SpecStorage == Init /\ [][NextStorage]_vars

\* Registration and login: two usernames, two passwords, one browser.
NextAuth ==
    \/ \E json_ok \in BOOLEAN, data \in AuthCredentials :
          (json_ok \/ data = [username |-> S_a]) /\ Login(json_ok, data)
    \/ \E json_ok \in BOOLEAN, data \in AuthCredentials :
          (json_ok \/ data = [username |-> S_a]) /\ Register(json_ok, data)
    \/ \E method \in {"POST", "GET"} : Logout(method)
    \/ GetItems
    \/ PostItem(TRUE, Milk)

SpecAuth == Init /\ [][NextAuth]_vars

\* ------------------------------------------------- lista.js: the API layer
\* `HTTP error! status: ${response.status}`
HttpError(status) ==
    CASE status = 401 -> "HTTP error! status: 401"
      [] status = 404 -> "HTTP error! status: 404"
      [] status = 500 -> "HTTP error! status: 500"
      [] OTHER -> "HTTP error! status"

\* message.includes(needle), for the messages and needles of the client (the texts are
\* written without diacritics).
includes(message, needle) ==
    <<message, needle>> \in
        { <<"Failed to fetch", "Failed to fetch">>,
          <<"HTTP error! status: 401", "401">>,
          <<"HTTP error! status: 404", "404">>,
          <<"HTTP error! status: 500", "500">>,
          <<"Nieautoryzowany dostep. Zaloguj sie ponownie.", "Nieautoryzowany">> }

\* getErrorMessage(error), navigator.onLine being isOnline.
getErrorMessage(isOnline, message) ==
    IF ~isOnline THEN "Brak polaczenia internetowego. Sprawdz swoje polaczenie."
    ELSE IF includes(message, "Failed to fetch")
    THEN "Problem z polaczeniem z serwerem. Sprobuj ponownie."
    ELSE IF includes(message, "401") THEN "Nieautoryzowany dostep. Zaloguj sie ponownie."
    ELSE IF includes(message, "404") THEN "Zadany zasob nie zostal znaleziony."
    ELSE IF includes(message, "500") THEN "Blad serwera. Sprobuj ponownie pozniej."
    ELSE message

\* errorData.error || errorData.message || `HTTP error! status: ${response.status}`
errorMessage(r) ==
    IF r.error # "" THEN r.error
    ELSE IF r.message # "" THEN r.message
    ELSE HttpError(r.status)

\* apiRequest(endpoint, method, data), navigator.onLine being isOnline and the server
\* answering with one of outcomes: what the call leaves on the server (o), whether the
\* request reached it (sent), and the message of the Error it throws ("" when it
\* returns the body).  Off line it throws before fetch; on line fetch can still reject
\* (the request then never reaches the server), and a response that is not ok (2xx) is
\* thrown with the body's error text passed through getErrorMessage.
apiRequest(isOnline, outcomes) ==
    IF ~isOnline
    THEN { [o |-> Answer(resp), sent |-> FALSE, error |-> "Brak polaczenia internetowego"] }
    ELSE { [o |-> Answer(resp), sent |-> FALSE,
            error |-> getErrorMessage(isOnline, "Failed to fetch")] }
         \cup { [o |-> o, sent |-> TRUE,
                 error |-> IF o.resp.status \in 200..299 THEN ""
                           ELSE getErrorMessage(isOnline, errorMessage(o.resp))] :
                 o \in outcomes }

\* The server's side of a call a of the API layer that made the request r.
Fetch(a, r) ==
    IF a.sent
    THEN req' = r /\ Respond(a.o) /\ UNCHANGED nUpdates
    ELSE UNCHANGED serverVars

\* -------------------------------------------- lista.js: PasswordStrength
\* The characters matched by /[a-z]/, /[A-Z]/, /[0-9]/ and /[!,@,#,$,%,^,&,*,?,_,~]/
\* (the commas of the last class are members of it).
Lowercase ==
    {"a", "b", "c", "d", "e", "f", "g", "h", "i", "j", "k", "l", "m", "n", "o", "p", "q",
     "r", "s", "t", "u", "v", "w", "x", "y", "z"}

Uppercase ==
    {"A", "B", "C", "D", "E", "F", "G", "H", "I", "J", "K", "L", "M", "N", "O", "P", "Q",
     "R", "S", "T", "U", "V", "W", "X", "Y", "Z"}

Numbers == {"0", "1", "2", "3", "4", "5", "6", "7", "8", "9"}

Special == {"!", ",", "@", "#", "$", "%", "^", "&", "*", "?", "_", "~"}

\* regex.test(password) for a character class.
test(class, password) == \E i \in DOMAIN password : password[i] \in class

\* The level for a number of points.
strengthLevel(strength) ==
    IF strength >= 4 THEN "strong"
    ELSE IF strength >= 3 THEN "medium"
    ELSE IF strength >= 2 THEN "weak"
    ELSE "very-weak"

\* The complaints, in the order they are pushed; one line when there is none.
Feedback(complaints) ==
    LET said == SelectSeq(complaints, LAMBDA c : c # "")
    IN  IF said = <<>> THEN <<"Mocne haslo!">> ELSE said

checkStrength_short(password) ==
    LET long == Len(password) >= 7
        cases == test(Lowercase, password) /\ test(Uppercase, password)
        strength == (IF long THEN 1 ELSE 0) + (IF cases THEN 1 ELSE 0)
                    + (IF test(Numbers, password) THEN 1 ELSE 0)
                    + (IF test(Special, password) THEN 1 ELSE 0)
    IN  [points |-> strength, strength |-> strengthLevel(strength),
         feedback |-> Feedback(<<IF long THEN "" ELSE "Haslo powinno miec co najmniej 8 znakow">>)]

\* checkStrength(password) of the last version: points is its local variable strength,
\* strength the level it returns.
checkStrength(password) ==
    LET minLength == Len(password) >= 8
        hasLowercase == test(Lowercase, password)
        hasUppercase == test(Uppercase, password)
        hasNumbers == test(Numbers, password)
        hasSpecial == test(Special, password)
        strength == (IF minLength THEN 1 ELSE 0)
                    + (IF hasLowercase /\ hasUppercase THEN 1 ELSE 0)
                    + (IF hasNumbers THEN 1 ELSE 0)
                    + (IF hasSpecial THEN 1 ELSE 0)
    IN  [points |-> strength,
         strength |-> strengthLevel(strength),
         feedback |-> Feedback(
            << IF minLength THEN "" ELSE "Haslo powinno miec co najmniej 8 znakow",
               IF hasLowercase /\ hasUppercase THEN "" ELSE "Dodaj wielkie i male litery",
               IF hasNumbers THEN "" ELSE "Dodaj cyfry",
               IF hasSpecial THEN "" ELSE "Dodaj znaki specjalne (!@#$%^&*?_~)" >>)]

\* checkStrength(password) of the first version: the number it returns as strength.
\* /([a-z].*[A-Z])|([A-Z].*[a-z])/
checkStrength_first(password) ==
    LET cases == \E i, j \in DOMAIN password :
                    /\ i < j
                    /\ \/ password[i] \in Lowercase /\ password[j] \in Uppercase
                       \/ password[i] \in Uppercase /\ password[j] \in Lowercase
    IN  (IF Len(password) >= 8 THEN 1 ELSE 0) + (IF cases THEN 1 ELSE 0)
        + (IF test(Numbers, password) THEN 1 ELSE 0)
        + (IF test(Special, password) THEN 1 ELSE 0)

\* The keys of the model's keyboard.
Keys == {"a", "A", "1", "!", "-"}

\* The input event of the password field of the registration form:
\* updatePasswordStrength().  A key is typed at the end of the field ...
TypeKey(key) ==
    /\ Len(registerPassword) < MaxPassword
    /\ registerPassword' = Append(registerPassword, key)
    /\ passwordFeedback' = checkStrength(registerPassword')
    /\ UNCHANGED serverVars
    /\ UNCHANGED <<currentUser, shoppingList, failedLoginAttempts, lockoutUntil,
                   sessionStorage, localStorage, authSection, onLine, Date_now, call,
                   editVars, calls>>

\* ... or the last character is deleted.
Backspace ==
    /\ registerPassword # <<>>
    /\ registerPassword' = SubSeq(registerPassword, 1, Len(registerPassword) - 1)
    /\ passwordFeedback' = checkStrength(registerPassword')
    /\ UNCHANGED serverVars
    /\ UNCHANGED <<currentUser, shoppingList, failedLoginAttempts, lockoutUntil,
                   sessionStorage, localStorage, authSection, onLine, Date_now, call,
                   editVars, calls>>

NextStrength == (\E key \in Keys : TypeKey(key)) \/ Backspace

SpecStrength == Init /\ [][NextStrength]_vars

\* -------------------------------------------- lista.js: SessionManager
oneWeek == 7 * 24 * 60 * 60 * 1000

saveSession(userData, rememberMe) ==
    LET sessionData == [user |-> userData, timestamp |-> Date_now, rememberMe |-> rememberMe]
    IN  IF rememberMe
        THEN localStorage' = {sessionData} /\ UNCHANGED sessionStorage
        ELSE sessionStorage' = {sessionData} /\ UNCHANGED localStorage

getSession == IF sessionStorage # {} THEN sessionStorage ELSE localStorage

getUser == IF getSession = {} THEN <<>> ELSE (CHOOSE session \in getSession : TRUE).user

clearSession == sessionStorage' = {} /\ localStorage' = {}

isSessionValid ==
    \E session \in getSession :
        IF session.rememberMe THEN Date_now - session.timestamp < oneWeek ELSE TRUE

\* ------------------------------------------------ lista.js: the application
MAX_LOGIN_ATTEMPTS == 5

LOCKOUT_TIME == 5 * 60 * 1000

\* loadShoppingList() with currentUser = user (not null): the call of getShoppingList
\* (a), and the currentUser and shoppingList it leaves; loggedOut: it took the branch
\* of an authentication error (clearSession, updateUIAfterLogout).  It catches every
\* error itself.
loadShoppingList(isOnline, user) ==
    { IF a.error = ""
      THEN [a |-> a, currentUser |-> user, shoppingList |-> a.o.resp.rows,
            loggedOut |-> FALSE]
      ELSE IF includes(a.error, "401") \/ includes(a.error, "Nieautoryzowany")
      THEN [a |-> a, currentUser |-> <<>>, shoppingList |-> <<>>, loggedOut |-> TRUE]
      ELSE [a |-> a, currentUser |-> user, shoppingList |-> <<>>, loggedOut |-> FALSE] :
        a \in apiRequest(isOnline, itemsGET) }

\* loadShoppingList() has run as l, the login section having the display shown.
Loaded(l, shown) ==
    /\ Fetch(l.a, Request("GET", NULL, "", TRUE, <<>>, 0))
    /\ currentUser' = l.currentUser
    /\ shoppingList' = l.shoppingList
    /\ authSection' = IF l.loggedOut THEN "block" ELSE shown
    /\ IF l.loggedOut THEN clearSession ELSE UNCHANGED <<sessionStorage, localStorage>>

\* The page is loaded: the application's variables are the initial ones, the login
\* section is displayed, and init() runs checkSavedSession().  Its catch is never
\* entered: loadShoppingList throws nothing.
checkSavedSession ==
    LET savedUser == getUser
    IN  /\ failedLoginAttempts' = 0
        /\ lockoutUntil' = 0
        /\ UNCHANGED <<onLine, Date_now, formVars>>
        /\ isEditingMode' = FALSE
        /\ originalList' = <<>>
        /\ calls' = <<>>
        /\ IF savedUser # <<>> /\ isSessionValid
           THEN \E l \in loadShoppingList(onLine, savedUser) :
                   /\ Loaded(l, "none")
                   /\ call' = Called("checkSavedSession", <<"getShoppingList">>, l.a.error)
           ELSE /\ UNCHANGED serverVars
                /\ currentUser' = <<>>
                /\ shoppingList' = <<>>
                /\ authSection' = "block"
                /\ IF savedUser # <<>> THEN clearSession
                   ELSE UNCHANGED <<sessionStorage, localStorage>>
                /\ call' = Called("checkSavedSession", <<>>, "")

\* isLockedOut(): its result, and the failedLoginAttempts it leaves.
isLockedOut_late == failedLoginAttempts > MAX_LOGIN_ATTEMPTS /\ Date_now < lockoutUntil

isLockedOut == failedLoginAttempts >= MAX_LOGIN_ATTEMPTS /\ Date_now < lockoutUntil

isLockedOut_attempts ==
    IF failedLoginAttempts >= MAX_LOGIN_ATTEMPTS /\ ~(Date_now < lockoutUntil)
    THEN 0 ELSE failedLoginAttempts

\* login(), the form holding username and password and the "remember me" box
\* rememberMe.
clientLogin(username, password, rememberMe) ==
    /\ UNCHANGED <<onLine, Date_now, shoppingList, formVars, editVars, calls>>
    /\ IF isLockedOut
       THEN /\ UNCHANGED serverVars
            /\ UNCHANGED <<currentUser, failedLoginAttempts, lockoutUntil, sessionStorage,
                           localStorage, authSection>>
            /\ call' = Called("login", <<>>, "")
       ELSE IF Trim(username) = <<>> \/ password = <<>>
       THEN /\ UNCHANGED serverVars
            /\ failedLoginAttempts' = isLockedOut_attempts
            /\ UNCHANGED <<currentUser, lockoutUntil, sessionStorage, localStorage,
                           authSection>>
            /\ call' = Called("login", <<>>, "")
       ELSE \E a \in apiRequest(onLine, login(TRUE, [username |-> Trim(username),
                                             password |-> password])) :
               /\ Fetch(a, Request("login", NULL, "", TRUE,
                                   [username |-> Trim(username), password |-> password], 0))
               /\ call' = Called("login", <<"loginUser">>, a.error)
               /\ IF a.error = ""
                  THEN /\ failedLoginAttempts' = 0
                       /\ currentUser' = a.o.resp.username
                       /\ saveSession(a.o.resp.username, rememberMe)
                       /\ authSection' = "none"
                       /\ UNCHANGED lockoutUntil
                  ELSE /\ failedLoginAttempts' = isLockedOut_attempts + 1
                       /\ lockoutUntil' = IF isLockedOut_attempts + 1 >= MAX_LOGIN_ATTEMPTS
                                          THEN Date_now + LOCKOUT_TIME ELSE lockoutUntil
                       /\ UNCHANGED <<currentUser, sessionStorage, localStorage, authSection>>

\* ------------------------------------------- lista.js: the list, normal mode
\* The handlers of the application section run while it is displayed.  The refresh
\* button is hidden and the controls of addItem are disabled by startListEditing and
\* shown and enabled by saveListChanges and cancelListEditing, always together with
\* the assignment of isEditingMode, which stands for them; handleItemClick returns
\* at once while isEditingMode is set.  clearList and removeCheckedItems sit in the
\* settings panel, which stays within reach while the list is edited.
\* refreshList()
refreshList ==
    /\ authSection = "none"
    /\ ~isEditingMode
    /\ UNCHANGED <<failedLoginAttempts, lockoutUntil, onLine, Date_now, formVars, editVars,
                   calls>>
    /\ IF currentUser = <<>>
       THEN /\ UNCHANGED serverVars
            /\ UNCHANGED <<currentUser, shoppingList, sessionStorage, localStorage, authSection>>
            /\ call' = Called("refreshList", <<>>, "")
       ELSE \E l \in loadShoppingList(onLine, currentUser) :
               /\ Loaded(l, authSection)
               /\ call' = Called("refreshList", <<"getShoppingList">>, l.a.error)

\* A handler that leaves everything but shoppingList to the browser as it is.
ListHandler ==
    UNCHANGED <<currentUser, failedLoginAttempts, lockoutUntil, sessionStorage, localStorage,
                authSection, onLine, Date_now, formVars, editVars, calls>>

\* addItem(), the form holding text, quantity, unit and description.
addItem(form) ==
    LET newItem == [text |-> Trim(form.text), quantity |-> form.quantity, unit |-> form.unit,
                    description |-> Trim(form.description), completed |-> FALSE]
    IN  /\ authSection = "none"
        /\ ~isEditingMode
        /\ ListHandler
        /\ IF Trim(form.text) = <<>> \/ form.quantity <= 0
           THEN /\ UNCHANGED <<serverVars, shoppingList>>
                /\ call' = Called("addItem", <<>>, "")
           ELSE \E a \in apiRequest(onLine, itemsPOST(TRUE, newItem)) :
                   /\ Fetch(a, Request("POST", NULL, "", TRUE, newItem, 0))
                   /\ shoppingList' = IF a.error = ""
                                      THEN Append(shoppingList, a.o.resp.rows[1])
                                      ELSE shoppingList
                   /\ call' = Called("addItem", <<"addItem">>, a.error)

\* The item of the list whose completed flag is flipped.
Toggled(i) ==
    [shoppingList EXCEPT ![i] =
        [@ EXCEPT !.completed = ~@,
                  !.completed_at = IF shoppingList[i].completed THEN NULL ELSE Date_now]]

\* toggleItem(id), the checkbox of an item of the list: the update goes to one of the
\* two versions of the items endpoint.
toggleItem(id) ==
    /\ authSection = "none"
    /\ ~isEditingMode
    /\ ListHandler
    /\ \E i \in DOMAIN shoppingList :
          /\ shoppingList[i].id = id
          /\ \A j \in 1..(i - 1) : shoppingList[j].id # id
          /\ LET updates == [completed |-> ~shoppingList[i].completed]
             IN  \E op \in {"PUT", "PUT items.php"} :
                 \E a \in apiRequest(onLine, IF op = "PUT"
                                             THEN itemsPUT(id, "", TRUE, updates, 0)
                                             ELSE items_php_PUT(id, TRUE, updates)) :
                    /\ Fetch(a, Request(op, id, "", TRUE, updates, 0))
                    /\ shoppingList' = IF a.error = "" THEN Toggled(i) ELSE shoppingList
                    /\ call' = Called("toggleItem", <<"updateItem">>, a.error)

\* deleteItem(id), the delete button of an item of the list, confirmed.
deleteItem(id) ==
    /\ authSection = "none"
    /\ ~isEditingMode
    /\ ListHandler
    /\ \E i \in DOMAIN shoppingList : shoppingList[i].id = id
    /\ \E a \in apiRequest(onLine, itemsDELETE(id, "")) :
          /\ Fetch(a, Request("DELETE", id, "", TRUE, <<>>, 0))
          /\ shoppingList' = IF a.error = ""
                             THEN SelectSeq(shoppingList, LAMBDA item : item.id # id)
                             ELSE shoppingList
          /\ call' = Called("deleteItem", <<"deleteItem">>, a.error)

\* removeCheckedItems(), confirmed.
removeCheckedItems ==
    /\ authSection = "none"
    /\ ListHandler
    /\ IF SelectSeq(shoppingList, LAMBDA item : item.completed) = <<>>
       THEN /\ UNCHANGED <<serverVars, shoppingList>>
            /\ call' = Called("removeCheckedItems", <<>>, "")
       ELSE \E a \in apiRequest(onLine, itemsDELETE(NULL, "remove_checked")) :
               /\ Fetch(a, Request("DELETE", NULL, "remove_checked", TRUE, <<>>, 0))
               /\ shoppingList' = IF a.error = ""
                                  THEN SelectSeq(shoppingList, LAMBDA item : ~item.completed)
                                  ELSE shoppingList
               /\ call' = Called("removeCheckedItems", <<"removeCheckedItems">>, a.error)

\* clearList(), confirmed.
clearList ==
    /\ authSection = "none"
    /\ ListHandler
    /\ \E a \in apiRequest(onLine, itemsDELETE(NULL, "clear")) :
          /\ Fetch(a, Request("DELETE", NULL, "clear", TRUE, <<>>, 0))
          /\ shoppingList' = IF a.error = "" THEN <<>> ELSE shoppingList
          /\ call' = Called("clearList", <<"clearList">>, a.error)

\* logout(): whatever the server answers, the session is cleared and the login
\* section shown.
clientLogout ==
    /\ authSection = "none"
    /\ UNCHANGED <<failedLoginAttempts, lockoutUntil, onLine, Date_now, formVars, editVars,
                   calls>>
    /\ \E a \in apiRequest(onLine, logout("POST")) :
          /\ Fetch(a, Request("logout", NULL, "", TRUE, <<>>, 0))
          /\ call' = Called("logout", <<"logoutUser">>, a.error)
    /\ clearSession
    /\ currentUser' = <<>>
    /\ authSection' = "block"
    /\ shoppingList' = <<>>

\* --------------------------------------------- lista.js: the list, edit mode
\* startListEditing(): the button of the settings panel.
startListEditing ==
    /\ authSection = "none"
    /\ isEditingMode' = TRUE
    /\ originalList' = shoppingList
    /\ call' = Called("startListEditing", <<>>, "")
    /\ UNCHANGED serverVars
    /\ UNCHANGED <<currentUser, shoppingList, failedLoginAttempts, lockoutUntil, sessionStorage,
                   localStorage, authSection, onLine, Date_now, formVars, calls>>

\* A save that leaves edit mode whether or not the request succeeded.
saveListChanges_leaves ==
    /\ authSection = "none"
    /\ isEditingMode
    /\ \E a \in apiRequest(onLine, itemsPUT(NULL, "replace", TRUE, [items |-> shoppingList], 0)) :
          /\ Fetch(a, Request("PUT", NULL, "replace", TRUE, [items |-> shoppingList], 0))
          /\ isEditingMode' = FALSE
          /\ call' = Called("saveListChanges", <<"replaceShoppingList">>, a.error)
    /\ UNCHANGED <<currentUser, shoppingList, failedLoginAttempts, lockoutUntil, sessionStorage,
                   localStorage, authSection, onLine, Date_now, formVars, originalList,
                   calls>>

\* saveListChanges(): the list as it is goes to PUT ?action=replace.
saveListChanges ==
    /\ authSection = "none"
    /\ isEditingMode
    /\ \E a \in apiRequest(onLine, itemsPUT(NULL, "replace", TRUE, [items |-> shoppingList], 0)) :
          /\ Fetch(a, Request("PUT", NULL, "replace", TRUE, [items |-> shoppingList], 0))
          /\ isEditingMode' = (a.error # "")
          /\ call' = Called("saveListChanges", <<"replaceShoppingList">>, a.error)
    /\ UNCHANGED <<currentUser, shoppingList, failedLoginAttempts, lockoutUntil, sessionStorage,
                   localStorage, authSection, onLine, Date_now, formVars, originalList,
                   calls>>

\* cancelListEditing()
cancelListEditing ==
    /\ authSection = "none"
    /\ isEditingMode
    /\ isEditingMode' = FALSE
    /\ shoppingList' = originalList
    /\ call' = Called("cancelListEditing", <<>>, "")
    /\ UNCHANGED serverVars
    /\ UNCHANGED <<currentUser, failedLoginAttempts, lockoutUntil, sessionStorage, localStorage,
                   authSection, onLine, Date_now, formVars, originalList, calls>>

\* shoppingList.findIndex(item => item.id === id), 0 for -1.
findIndex(list, id) ==
    IF \E i \in DOMAIN list : list[i].id = id
    THEN CHOOSE i \in DOMAIN list : list[i].id = id /\ \A j \in 1..(i - 1) : list[j].id # id
    ELSE 0

\* list.splice(index, 1), index counted from 1: nothing goes when it is past the end.
splice(list, index) ==
    [i \in 1..(Len(list) - (IF index \in DOMAIN list THEN 1 ELSE 0)) |->
        IF i < index THEN list[i] ELSE list[i + 1]]

\* removeItemDuringEditing(id), the delete button of a row of the edit form, its
\* request settling before anything else happens.
removeItemDuringEditing(id) ==
    /\ authSection = "none"
    /\ isEditingMode
    /\ findIndex(shoppingList, id) # 0
    /\ \E a \in apiRequest(onLine, itemsDELETE(id, "")) :
          /\ Fetch(a, Request("DELETE", id, "", TRUE, <<>>, 0))
          /\ shoppingList' = IF a.error = ""
                             THEN splice(shoppingList, findIndex(shoppingList, id))
                             ELSE shoppingList
          /\ call' = Called("removeItemDuringEditing", <<"deleteItem">>, a.error)
    /\ UNCHANGED <<currentUser, failedLoginAttempts, lockoutUntil, sessionStorage, localStorage,
                   authSection, onLine, Date_now, formVars, editVars, calls>>

\* (field === 'quantity') ? parseInt(value) || 1 : value
EditedValue(field, value) == IF field = "quantity" /\ value = 0 THEN 1 ELSE value

\* updateItemDuringEditing(id, field, value), the change of a field of the edit form:
\* the list is assigned before the request is made and is left so when it fails.  The
\* request goes to one of the two versions of the items endpoint.
updateItemDuringEditing(id, field, value) ==
    /\ authSection = "none"
    /\ isEditingMode
    /\ findIndex(shoppingList, id) # 0
    /\ LET index == findIndex(shoppingList, id)
           updates == [f \in {field} |-> EditedValue(field, value)]
       IN  /\ shoppingList' = [shoppingList EXCEPT ![index][field] = EditedValue(field, value)]
           /\ \E op \in {"PUT", "PUT items.php"} :
              \E a \in apiRequest(onLine, IF op = "PUT"
                                          THEN itemsPUT(id, "", TRUE, updates, 0)
                                          ELSE items_php_PUT(id, TRUE, updates)) :
                 /\ Fetch(a, Request(op, id, "", TRUE, updates, 0))
                 /\ call' = Called("updateItemDuringEditing", <<"updateItem">>, a.error)
    /\ UNCHANGED <<currentUser, failedLoginAttempts, lockoutUntil, sessionStorage, localStorage,
                   authSection, onLine, Date_now, formVars, editVars, calls>>

\* ------------------------------- lista.js: handlers followed through await
\* A handler has run up to its await: fn(id) holds index and data in its locals and
\* its request is on its way.  attached: the item object the handler holds is an
\* element of shoppingList.  overlaps: a handler started earlier has not settled.
Started(fn, id, index, data) ==
    [fn |-> fn, id |-> id, index |-> index, data |-> data, attached |-> index # 0,
     overlaps |-> \E i \in DOMAIN calls : calls[i].state # "settled",
     state |-> "sent", error |-> "", rows |-> <<>>]

\* The handler starts: nothing but its locals is assigned before the await.
Start(c) ==
    /\ authSection = "none"
    /\ Len(calls) < MaxCalls
    /\ calls' = Append(calls, c)
    /\ UNCHANGED serverVars
    /\ UNCHANGED <<currentUser, shoppingList, failedLoginAttempts, lockoutUntil, sessionStorage,
                   localStorage, authSection, onLine, Date_now, call, formVars, editVars>>

\* loadShoppingList() up to await DatabaseModule.getShoppingList(), started by the
\* refresh button.
StartLoad ==
    /\ ~isEditingMode
    /\ currentUser # <<>>
    /\ Start(Started("loadShoppingList", NULL, 0, <<>>))

\* addItem() up to await DatabaseModule.addItem(newItem), the form being valid.
StartAdd(form) ==
    /\ ~isEditingMode
    /\ Trim(form.text) # <<>> /\ form.quantity > 0
    /\ Start(Started("addItem", NULL, 0,
                     [text |-> Trim(form.text), quantity |-> form.quantity,
                      unit |-> form.unit, description |-> Trim(form.description),
                      completed |-> FALSE]))

\* toggleItem(id) up to await DatabaseModule.updateItem(id, { completed: newCompleted }).
StartToggle(id) ==
    /\ ~isEditingMode
    /\ findIndex(shoppingList, id) # 0
    /\ Start(Started("toggleItem", id, findIndex(shoppingList, id),
                     [completed |-> ~shoppingList[findIndex(shoppingList, id)].completed]))

\* deleteItem(id), confirmed, up to await DatabaseModule.deleteItem(id).
StartDelete(id) ==
    /\ ~isEditingMode
    /\ findIndex(shoppingList, id) # 0
    /\ Start(Started("deleteItem", id, 0, <<>>))

\* removeItemDuringEditing(id) up to await DatabaseModule.deleteItem(id).
StartRemove(id) ==
    /\ isEditingMode
    /\ findIndex(shoppingList, id) # 0
    /\ Start(Started("removeItemDuringEditing", id, findIndex(shoppingList, id), <<>>))

\* What the items endpoint (part_000) may answer to the request of the call c, and the
\* request.
CallOutcomes(c) ==
    IF c.fn = "loadShoppingList" THEN itemsGET
    ELSE IF c.fn = "addItem" THEN itemsPOST(TRUE, c.data)
    ELSE IF c.fn = "toggleItem" THEN itemsPUT(c.id, "", TRUE, c.data, 0)
    ELSE itemsDELETE(c.id, "")

CallRequest(c) ==
    IF c.fn = "loadShoppingList" THEN Request("GET", NULL, "", TRUE, <<>>, 0)
    ELSE IF c.fn = "addItem" THEN Request("POST", NULL, "", TRUE, c.data, 0)
    ELSE IF c.fn = "toggleItem" THEN Request("PUT", c.id, "", TRUE, c.data, 0)
    ELSE Request("DELETE", c.id, "", TRUE, <<>>, 0)

\* The request of the i-th call is answered, or fails: requests in flight together reach
\* the server in any order.
Serve(i) ==
    /\ calls[i].state = "sent"
    /\ \E a \in apiRequest(onLine, CallOutcomes(calls[i])) :
          /\ Fetch(a, CallRequest(calls[i]))
          /\ calls' = [calls EXCEPT ![i] =
                          [@ EXCEPT !.state = "answered", !.error = a.error,
                                    !.rows = IF a.error = "" THEN a.o.resp.rows ELSE <<>>]]
    /\ UNCHANGED <<currentUser, shoppingList, failedLoginAttempts, lockoutUntil, sessionStorage,
                   localStorage, authSection, onLine, Date_now, call, formVars, editVars>>

\* The list after the await of the call c returned or threw.
Settled(c) ==
    IF c.fn = "loadShoppingList"
    THEN IF c.error = "" THEN c.rows ELSE <<>>
    ELSE IF c.error # "" THEN shoppingList
    ELSE IF c.fn = "addItem" THEN Append(shoppingList, c.rows[1])
    ELSE IF c.fn = "toggleItem"
    THEN IF c.attached /\ findIndex(shoppingList, c.id) # 0
         THEN Toggled(findIndex(shoppingList, c.id))
         ELSE shoppingList
    ELSE IF c.fn = "deleteItem" THEN SelectSeq(shoppingList, LAMBDA item : item.id # c.id)
    ELSE splice(shoppingList, c.index)

\* loadShoppingList() returns the user to the login section when the request was
\* answered 401.
SessionExpired(c) ==
    /\ c.fn = "loadShoppingList"
    /\ includes(c.error, "401") \/ includes(c.error, "Nieautoryzowany")

\* The rest of the i-th handler runs, the answers of requests in flight together
\* arriving in any order.  A list that is assigned anew holds new objects, and an item
\* filtered out is no longer in it: the item a toggleItem holds is then not in the list.
Settle(i) ==
    LET c == calls[i]
        fresh == Settled(c)
    IN  /\ c.state = "answered"
        /\ shoppingList' = fresh
        /\ calls' = [j \in DOMAIN calls |->
                        IF j = i THEN [c EXCEPT !.state = "settled"]
                        ELSE [calls[j] EXCEPT !.attached =
                                 /\ @
                                 /\ c.fn # "loadShoppingList"
                                 /\ findIndex(fresh, calls[j].id) # 0]]
        /\ call' = Called(c.fn, <<c.fn>>, c.error)
        /\ IF SessionExpired(c)
           THEN /\ currentUser' = <<>>
                /\ authSection' = "block"
                /\ clearSession
           ELSE UNCHANGED <<currentUser, authSection, sessionStorage, localStorage>>
        /\ UNCHANGED serverVars
        /\ UNCHANGED <<failedLoginAttempts, lockoutUntil, onLine, Date_now, formVars, editVars>>

\* ------------------------------------------------- lista.js: register()
\* register(): the registration form holds username, the password typed into
\* registerPassword and its confirmation; rememberMe is the checkbox of the login form.
\* loadShoppingList(), which a successful registration ends with, is not awaited: it is
\* left at its await.
clientRegister(username, confirm, rememberMe) ==
    LET password == registerPassword
        data == [username |-> Trim(username), password |-> password]
    IN  /\ UNCHANGED <<failedLoginAttempts, lockoutUntil, onLine, Date_now, shoppingList,
                       editVars>>
        /\ IF \/ Trim(username) = <<>> \/ password = <<>>
              \/ Len(Trim(username)) < 3
              \/ password # confirm
              \/ checkStrength(password).strength \in {"very-weak", "weak"}
           THEN /\ UNCHANGED serverVars
                /\ UNCHANGED <<currentUser, sessionStorage, localStorage, authSection,
                               formVars, calls>>
                /\ call' = Called("register", <<>>, "")
           ELSE \E a \in apiRequest(onLine, register(TRUE, data)) :
                   /\ Fetch(a, Request("register", NULL, "", TRUE, data, 0))
                   /\ call' = Called("register", <<"registerUser">>, a.error)
                   /\ IF a.error = ""
                      THEN /\ currentUser' = a.o.resp.username
                           /\ saveSession(a.o.resp.username, rememberMe)
                           /\ authSection' = "none"
                           /\ registerPassword' = <<>>
                           /\ passwordFeedback' = [points |-> 0, strength |-> "",
                                                   feedback |-> <<>>]
                           /\ calls' = Append(calls,
                                              Started("loadShoppingList", NULL, 0, <<>>))
                      ELSE UNCHANGED <<currentUser, sessionStorage, localStorage,
                                       authSection, formVars, calls>>

\* --------------------------------------------- the browser's environment
\* Time passes.
Advance(delay, last) ==
    /\ Date_now + delay <= last
    /\ Date_now' = Date_now + delay
    /\ UNCHANGED serverVars
    /\ UNCHANGED <<currentUser, shoppingList, failedLoginAttempts, lockoutUntil,
                   sessionStorage, localStorage, authSection, onLine, call, formVars,
                   editVars, calls>>

\* The network goes away or comes back: handleNetworkChange() reloads the list of a
\* logged-in user when it is back.
Network ==
    /\ onLine' = ~onLine
    /\ UNCHANGED <<failedLoginAttempts, lockoutUntil, Date_now, formVars, editVars, calls>>
    /\ IF ~onLine /\ currentUser # <<>>
       THEN \E l \in loadShoppingList(TRUE, currentUser) :
               /\ Loaded(l, authSection)
               /\ call' = Called("handleNetworkChange", <<"getShoppingList">>, l.a.error)
       ELSE /\ UNCHANGED serverVars
            /\ UNCHANGED <<currentUser, shoppingList, sessionStorage, localStorage,
                           authSection>>
            /\ call' = Called("handleNetworkChange", <<>>, "")

\* Page loads with a saved identity: a registered user logs in through the page, time
\* passes, the PHP session may end meanwhile (Logout) and the network may be away.
NextSession ==
    \/ Register(TRUE, [username |-> S_a, password |-> S_Secret])
    \/ Logout("POST")
    \/ PostItem(TRUE, Milk)
    \/ \E rememberMe \in BOOLEAN : clientLogin(S_a, S_Secret, rememberMe)
    \/ checkSavedSession
    \/ Network
    \/ \E delay \in {oneWeek - 1, oneWeek} : Advance(delay, MaxWeeks * oneWeek)

SpecSession == Init /\ [][NextSession]_vars

\* What the login form can hold.
LoginForms ==
    { [username |-> S_a, password |-> S_Secret],
      [username |-> <<" ", "a">>, password |-> S_pw],
      [username |-> <<" ">>, password |-> S_Secret] }

\* Login attempts in one browser: right and wrong passwords, an empty form, with time
\* passing, the network away at times, and the page reloaded.
NextLockout ==
    \/ Register(TRUE, [username |-> S_a, password |-> S_Secret])
    \/ \E form \in LoginForms, rememberMe \in BOOLEAN :
          clientLogin(form.username, form.password, rememberMe)
    \/ checkSavedSession
    \/ Network
    \/ \E delay \in {LOCKOUT_TIME - 1, LOCKOUT_TIME} :
          Advance(delay, MaxLockouts * LOCKOUT_TIME)

SpecLockout == Init /\ [][NextLockout]_vars

\* What the form of a new item can hold.
ItemForms ==
    { [text |-> <<" ", "m">>, quantity |-> 2, unit |-> "l", description |-> <<"d", " ">>],
      [text |-> <<"0">>, quantity |-> 1, unit |-> "szt", description |-> <<>>],
      [text |-> <<" ">>, quantity |-> 1, unit |-> "szt", description |-> <<>>] }

\* The five operations on the list in normal mode.
ListOperation ==
    \/ \E form \in ItemForms : addItem(form)
    \/ \E id \in ItemIds : toggleItem(id)
    \/ \E id \in ItemIds : deleteItem(id)
    \/ removeCheckedItems
    \/ clearList

\* One browser of one registered user, on line: logging in and out, reloading the list
\* and working on it; a request can fail to reach the server or be rejected by it.
NextClient ==
    \/ Register(TRUE, [username |-> S_a, password |-> S_Secret])
    \/ clientLogin(S_a, S_Secret, FALSE)
    \/ clientLogout
    \/ refreshList
    \/ ListOperation

SpecClient == Init /\ [][NextClient]_vars

\* What is typed into a field of the edit form.
FieldEdits ==
    { [field |-> "text", value |-> <<"x">>],
      [field |-> "text", value |-> <<>>],
      [field |-> "quantity", value |-> 0] }

\* The handlers of edit mode.
EditOperation ==
    \/ startListEditing
    \/ saveListChanges
    \/ cancelListEditing
    \/ \E id \in ItemIds : removeItemDuringEditing(id)
    \/ \E id \in ItemIds, edit \in FieldEdits : updateItemDuringEditing(id, edit.field, edit.value)

\* The user registers, once.
RegisterOnce ==
    /\ users = {}
    /\ Register(TRUE, [username |-> S_a, password |-> S_Secret])

\* A login that succeeds.
LoginEdit ==
    /\ clientLogin(S_a, S_Secret, FALSE)
    /\ currentUser' # <<>>

\* The first item of the table is added.
AddFirst ==
    /\ nextItemId = 1
    /\ addItem([text |-> <<"m">>, quantity |-> 2, unit |-> "l", description |-> <<>>])

\* One browser of one user: a list of one item is edited as a whole and worked on; the
\* user logs out and in.
NextEdit ==
    \/ RegisterOnce
    \/ LoginEdit
    \/ clientLogout
    \/ AddFirst
    \/ \E id \in ItemIds : toggleItem(id)
    \/ EditOperation

SpecEdit == Init /\ [][NextEdit]_vars

\* The user logs in, once.
LoginOnce ==
    /\ currentUser = <<>>
    /\ LoginEdit

\* The list is filled before any handler is followed through its await.
AddEarly ==
    /\ calls = <<>>
    /\ addItem([text |-> <<"m">>, quantity |-> 2, unit |-> "l", description |-> <<>>])

\* One browser of one user: the list is filled, and then up to MaxCalls handlers run
\* with their requests in flight together, while the server's clock advances.
NextAsync ==
    \/ RegisterOnce
    \/ LoginOnce
    \/ AddEarly
    \/ startListEditing
    \/ StartLoad
    \/ StartAdd([text |-> <<"m">>, quantity |-> 2, unit |-> "l", description |-> <<>>])
    \/ \E id \in ItemIds : StartToggle(id)
    \/ \E id \in ItemIds : StartDelete(id)
    \/ \E id \in ItemIds : StartRemove(id)
    \/ \E i \in DOMAIN calls : Serve(i)
    \/ \E i \in DOMAIN calls : Settle(i)
    \/ Tick

SpecAsync == Init /\ [][NextAsync]_vars

\* The keys of the passwords typed into the registration form.
RegisterKeys == {"a", "A", "1", "!"}

\* What the rest of the registration form holds when it is submitted: a username of
\* three characters or of one, and the confirmation, which repeats the password or is
\* left empty.
RegisterForms ==
    { [username |-> u, confirm |-> c] : u \in {S_ann, S_a}, c \in {registerPassword, <<>>} }

\* One browser: a password is typed into the registration form, the form is submitted,
\* once, and the list of the new user is loaded.
NextRegister ==
    \/ \E key \in RegisterKeys : call.fn = "" /\ TypeKey(key)
    \/ call.fn = "" /\ Backspace
    \/ \E form \in RegisterForms :
          call.fn = "" /\ clientRegister(form.username, form.confirm, FALSE)
    \/ \E i \in DOMAIN calls : Serve(i)
    \/ \E i \in DOMAIN calls : Settle(i)

SpecRegister == Init /\ [][NextRegister]_vars

\* ------------------------------------------------------------------ claims
\* The step answers a request (the only other step is the clock's).
Answered == now' = now

\* The items of a table that belong to userId, and those that do not.
OwnItems(items, userId) == { r \in items : r.user_id = userId }
OthersItems(items, userId) == { r \in items : r.user_id # userId }

\* C1: whatever item request is made under a user's session, every row of the response
\* is a stored item of that user, and the items of every other user are as they were:
\* none is created, changed or deleted.
C1_Isolation ==
    [][ (Answered /\ req'.op \in ItemOps) =>
          /\ OthersItems(shopping_items', SESSION) = OthersItems(shopping_items, SESSION)
          /\ \A i \in DOMAIN resp'.rows :
                \E r \in OwnItems(shopping_items', SESSION) : Select(r) = resp'.rows[i] ]_vars

\* A user has just cleared a non-empty list while another user's item is stored.
C1_Witness ==
    /\ req.op = "DELETE" /\ req.action = "clear"
    /\ SESSION # NULL /\ resp.count >= 1
    /\ \E r \in shopping_items : r.user_id # SESSION

\* C2: an item request made without a session user is answered 401 and changes no table,
\* one made with a session user is not answered 401; the session user is set only by a
\* login or a register answered 200, to the user of that answer, who is a registered
\* user; it is removed only by logout; logout answers 200 and leaves no session user,
\* whether or not there was one.
C2_Authentication ==
    [][ Answered =>
          /\ (req'.op \in ItemOps /\ SESSION = NULL) =>
                /\ resp'.status = 401
                /\ UNCHANGED <<users, shopping_items, nextItemId, SESSION>>
          /\ (req'.op \in ItemOps /\ SESSION # NULL) =>
                (resp'.status # 401 /\ SESSION' = SESSION)
          /\ (SESSION' # SESSION /\ SESSION' # NULL) =>
                /\ req'.op \in {"login", "register"}
                /\ resp'.status = 200 /\ resp'.uid = SESSION'
                /\ \E u \in users' : u.id = SESSION'
          /\ (SESSION' # SESSION /\ SESSION' = NULL) => req'.op = "logout"
          /\ req'.op = "logout" =>
                /\ resp'.status = 200 /\ SESSION' = NULL
                /\ UNCHANGED <<users, shopping_items>> ]_vars

\* After a logout, an item request is answered 401 while items are stored.
C2_Witness ==
    /\ req.op \in ItemOps /\ resp.status = 401
    /\ shopping_items # {} /\ SESSION = NULL

\* The step answers PUT ?action=replace with a well-formed body, for a logged-in user.
IsReplace == Answered /\ req'.op = "PUT" /\ req'.itemId = NULL /\ req'.action = "replace"
             /\ req'.json_ok /\ SESSION # NULL

\* An item a replace must reject: empty text, quantity < 1, or a unit outside the set.
C3_BadItem(item) ==
    \/ ~Isset(item, "text") \/ Trim(item.text) = <<>>
    \/ Isset(item, "quantity") /\ item.quantity < 1
    \/ ~Isset(item, "unit") \/ item.unit \notin {"szt", "kg", "g", "l", "ml", "opak", "inna"}

\* C3: a replace whose batch holds a bad item is answered 400, one whose INSERT fails
\* after the DELETE is answered 500, and in both cases the table is exactly what it was.
C3_ReplaceAllOrNothing ==
    [][ IsReplace =>
          /\ (\E i \in DOMAIN req'.data.items : C3_BadItem(req'.data.items[i])) =>
                (resp'.status = 400 /\ shopping_items' = shopping_items)
          /\ req'.fail # 0 =>
                (resp'.status = 500 /\ shopping_items' = shopping_items) ]_vars

\* The second INSERT of a replace has failed and the caller's previous list is stored.
C3_Witness ==
    /\ req.op = "PUT" /\ req.action = "replace" /\ req.fail = 2
    /\ resp.status = 500
    /\ OwnItems(shopping_items, SESSION) # {}

\* The row holds the values the JSON object supplies, as supplied.
StoresSubmitted(row, item) ==
    \A k \in DOMAIN item \cap UpdatableKeys : row[k] = item[k]

\* The row holds the values the JSON object supplies, text and description without
\* their leading and trailing whitespace.
StoresTrimmed(row, item) ==
    \A k \in DOMAIN item \cap UpdatableKeys :
        row[k] = IF k \in {"text", "description"} THEN Trim(item[k]) ELSE item[k]

\* A replace answered 200 leaves the caller exactly n items, none of them a previous
\* item or under the id of one, the i-th submitted item stored as Stores says.
ReplaceStores(Stores(_, _)) ==
    (IsReplace /\ resp'.status = 200) =>
        LET items == req'.data.items
            before == OwnItems(shopping_items, SESSION)
            after == OwnItems(shopping_items', SESSION)
        IN  /\ Cardinality(after) = Len(items)
            /\ after \cap before = {}
            /\ \A r \in after, q \in before : r.id # q.id
            /\ \E f \in [DOMAIN items -> after] :
                  /\ \A i, j \in DOMAIN items : i # j => f[i] # f[j]
                  /\ \A i \in DOMAIN items : Stores(f[i], items[i])

\* C4 as stated: after a successful replace of n items the caller's list is n new items
\* whose text, quantity, unit, description and completed flag equal those submitted.
C4_ReplaceStoresSubmitted == [][ReplaceStores(StoresSubmitted)]_vars

\* C4 amended: ... whose quantity, unit and completed flag equal those submitted and
\* whose text and description equal those submitted with surrounding whitespace removed.
C4_ReplaceStoresTrimmed == [][ReplaceStores(StoresTrimmed)]_vars

\* A replace has stored a batch of two items, one of them completed.
C4_Witness ==
    /\ req.op = "PUT" /\ req.action = "replace" /\ resp.status = 200
    /\ Len(req.data.items) = 2
    /\ \E r \in OwnItems(shopping_items, SESSION) : r.completed

\* The request supplies an empty text or a quantity below 1.
SuppliesInvalid(data) ==
    \/ Isset(data, "text") /\ Trim(data.text) = <<>>
    \/ Isset(data, "quantity") /\ data.quantity < 1

\* C5: every stored item has a non-empty text, a quantity >= 1 and a unit of the
\* enumerated set; an add, or an update of an item of the caller, that supplies an empty
\* text or a quantity < 1 is answered 400 and changes no stored item.
C5_StoredItemsValid ==
    [][ Answered =>
          /\ \A r \in shopping_items' :
                /\ Trim(r.text) # <<>>
                /\ r.quantity >= 1
                /\ r.unit \in {"szt", "kg", "g", "l", "ml", "opak", "inna"}
          /\ ( /\ SESSION # NULL /\ req'.json_ok /\ SuppliesInvalid(req'.data)
               /\ \/ req'.op = "POST"
                  \/ /\ req'.op \in {"PUT", "PUT items.php"}
                     /\ \E r \in OwnItems(shopping_items, SESSION) : r.id = req'.itemId )
             => (resp'.status = 400 /\ shopping_items' = shopping_items) ]_vars

\* C6: an add with a non-empty text and a quantity >= 1 (1 when none is supplied) is
\* answered 201 with one record: an id no stored item has, the supplied values (text and
\* description trimmed), completed = false unless supplied; the record is stored for the
\* caller and nothing else changes; a fetch right after it returns the caller's items,
\* the record among them.
C6_AddReturnsRecord ==
    [][ (Answered /\ SESSION # NULL) =>
          /\ ( /\ req'.op = "POST" /\ req'.json_ok
               /\ Isset(req'.data, "text") /\ Trim(req'.data.text) # <<>>
               /\ Coalesce(req'.data, "quantity", 1) >= 1 )
             => /\ resp'.status = 201
                /\ Len(resp'.rows) = 1
                /\ \A r \in shopping_items : r.id # resp'.rows[1].id
                /\ StoresTrimmed(resp'.rows[1], req'.data)
                /\ Isset(req'.data, "completed") \/ ~resp'.rows[1].completed
                /\ \E r \in OwnItems(shopping_items', SESSION) :
                      /\ Select(r) = resp'.rows[1]
                      /\ shopping_items' = shopping_items \cup {r}
                      /\ r \notin shopping_items
          /\ (req.op = "POST" /\ resp.status = 201 /\ req'.op = "GET")
             => /\ resp'.status = 200
                /\ Len(resp'.rows) = Cardinality(OwnItems(shopping_items, SESSION))
                /\ \E i \in DOMAIN resp'.rows : resp'.rows[i] = resp.rows[1] ]_vars

\* The step answers a request of a logged-in user that names an item id.
NamesItem(ops) == Answered /\ SESSION # NULL /\ req'.op \in ops /\ req'.itemId # NULL

\* C7: an update or a delete naming an id that no item of the caller has (no such item,
\* or an item of another user) is answered 404 and changes no stored item.
C7_NotFound ==
    [][ ( /\ NamesItem({"PUT", "PUT items.php", "DELETE"}) /\ req'.json_ok
          /\ \A r \in OwnItems(shopping_items, SESSION) : r.id # req'.itemId )
        => (resp'.status = 404 /\ shopping_items' = shopping_items) ]_vars

\* C8: every stored item has a completion timestamp exactly when it is completed; an
\* update answered 200 that sets completed = true leaves the item completed with a
\* completion timestamp >= its add timestamp, one that sets completed = false leaves it
\* not completed with no completion timestamp.
C8_CompletedAt ==
    [][ Answered =>
          /\ \A r \in shopping_items' : (r.completed_at # NULL) <=> r.completed
          /\ ( /\ NamesItem({"PUT", "PUT items.php"}) /\ resp'.status = 200
               /\ Isset(req'.data, "completed") )
             => \A r \in OwnItems(shopping_items', SESSION) :
                   r.id = req'.itemId =>
                      IF req'.data.completed
                      THEN r.completed /\ r.completed_at # NULL
                           /\ r.completed_at >= r.added_at
                      ELSE ~r.completed /\ r.completed_at = NULL ]_vars

\* An update answered 200 rewrites one item X of the caller: the fields the body names
\* as Stores says, updated_at the time of the request, every other field but the two
\* timestamps as it was; no other item changes; the answer is the message, with no row.
UpdateSets(Stores(_, _)) ==
    (NamesItem({"PUT", "PUT items.php"}) /\ resp'.status = 200) =>
        /\ DOMAIN req'.data \cap UpdatableKeys # {}
        /\ resp'.message = "Item updated successfully" /\ resp'.rows = <<>>
        /\ \E x \in OwnItems(shopping_items, SESSION), y \in shopping_items' :
              /\ x.id = req'.itemId /\ y.id = x.id
              /\ shopping_items' = (shopping_items \ {x}) \cup {y}
              /\ Stores(y, req'.data)
              /\ y.updated_at = now
              /\ \A c \in DOMAIN x \ (DOMAIN req'.data \cup {"completed_at", "updated_at"}) :
                    y[c] = x[c]

\* C9 as stated: a successful update with the fields S sets exactly those fields to the
\* supplied values, refreshes updated_at, changes nothing else, answers a message.
C9_UpdateSetsSupplied == [][UpdateSets(StoresSubmitted)]_vars

\* The handler that answers the update stores the field: items.php stores text and
\* description trimmed, part_000 stores every field as supplied.
StoresAsHandled(row, data) ==
    IF req'.op = "PUT items.php" THEN StoresTrimmed(row, data)
    ELSE StoresSubmitted(row, data)

\* C9 amended: ... sets exactly those fields to the supplied values, text and
\* description without surrounding whitespace where items.php handles the update ...
C9_UpdateSetsHandled == [][UpdateSets(StoresAsHandled)]_vars

\* items.php has updated an item some time after it was added, trimming the new text.
C9_Witness ==
    /\ req.op = "PUT items.php" /\ resp.status = 200
    /\ Isset(req.data, "text") /\ Trim(req.data.text) # req.data.text
    /\ \E r \in OwnItems(shopping_items, SESSION) :
          r.id = req.itemId /\ r.text = Trim(req.data.text) /\ r.updated_at > r.added_at

\* The request is DELETE ?action=a.
IsBulkDelete(r, a) == r.op = "DELETE" /\ r.itemId = NULL /\ r.action = a

\* C10: remove-checked deletes exactly the caller's completed items and clear exactly
\* the caller's items, every other item stays as it is, and both report the number
\* deleted; a fetch right after remove-checked returns no completed item, a fetch right
\* after clear returns no item.
C10_BulkDelete ==
    [][ (Answered /\ SESSION # NULL) =>
          LET own == OwnItems(shopping_items, SESSION)
              checked == { r \in own : r.completed }
          IN  /\ IsBulkDelete(req', "remove_checked") =>
                    /\ resp'.status = 200 /\ resp'.count = Cardinality(checked)
                    /\ shopping_items' = shopping_items \ checked
              /\ IsBulkDelete(req', "clear") =>
                    /\ resp'.status = 200 /\ resp'.count = Cardinality(own)
                    /\ shopping_items' = shopping_items \ own
              /\ (IsBulkDelete(req, "remove_checked") /\ resp.status = 200 /\ req'.op = "GET")
                    => /\ resp'.status = 200
                       /\ \A i \in DOMAIN resp'.rows : ~resp'.rows[i].completed
              /\ (IsBulkDelete(req, "clear") /\ resp.status = 200 /\ req'.op = "GET")
                    => (resp'.status = 200 /\ resp'.rows = <<>>) ]_vars

\* Remove-checked has deleted an item and left the caller an item that is not completed.
C10_Witness ==
    /\ IsBulkDelete(req, "remove_checked") /\ resp.status = 200 /\ resp.count >= 1
    /\ \E r \in OwnItems(shopping_items, SESSION) : ~r.completed

\* The username a register or login request names (what the script looks up).
NamedUser(r) == Trim(Coalesce(r.data, "username", <<>>))

\* The step answers a register request whose username is that of a stored user.
RegistersTaken ==
    Answered /\ req'.op = "register" /\ \E u \in users : u.username = NamedUser(req')

\* A register leaves the users as they were, and no two users share a username.
KeepsUsers ==
    /\ users' = users
    /\ \A u, v \in users' : u.username = v.username => u = v

\* C11 as stated: a register whose username already exists answers 409, creates no
\* user and leaves the stored hash as it was; no two users share a username.
C11_TakenUsername ==
    [][ RegistersTaken => (resp'.status = 409 /\ KeepsUsers) ]_vars

\* C11 amended: such a register answers 409 when its body is well-formed and its
\* password has at least 8 characters, and 400 otherwise; either way it creates no user
\* and leaves the stored hash as it was; no two users share a username.
C11_TakenUsernameChecked ==
    [][ RegistersTaken =>
          /\ KeepsUsers
          /\ resp'.status =
                IF req'.json_ok /\ Len(Coalesce(req'.data, "password", <<>>)) >= 8
                THEN 409 ELSE 400 ]_vars

\* A register with another password has been refused for a username that is taken.
C11_Witness ==
    /\ req.op = "register" /\ resp.status = 409
    /\ \E u \in users :
          /\ u.username = NamedUser(req)
          /\ u.password # password_hash(req.data.password)

\* A register request that must be rejected: an empty field, a password shorter than 8
\* characters, or a username that is taken.
C12_Rejected(r) ==
    \/ NamedUser(r) = <<>>
    \/ Len(Coalesce(r.data, "password", <<>>)) < 8
    \/ \E u \in users : u.username = NamedUser(r)

\* C12: a register answered 200 adds exactly one user, under the name and the password
\* of the request, and makes that user the session user, so that the item request that
\* follows is not answered 401; a register with an empty field, a short password or a
\* taken username is answered 400 or 409, adds no user and leaves the session user as
\* it was; every other well-formed register is answered 200.
C12_RegisterLogsIn ==
    [][ Answered =>
          /\ (req'.op = "register" /\ resp'.status = 200) =>
                \E u \in users' :
                   /\ u \notin users /\ users' = users \cup {u}
                   /\ \A v \in users : v.id # u.id
                   /\ u.username = NamedUser(req')
                   /\ password_verify(req'.data.password, u.password)
                   /\ SESSION' = u.id /\ resp'.uid = u.id
          /\ (req'.op = "register" /\ req'.json_ok) =>
                IF C12_Rejected(req')
                THEN /\ resp'.status \in {400, 409}
                     /\ users' = users /\ SESSION' = SESSION
                ELSE resp'.status = 200
          /\ (req.op = "register" /\ resp.status = 200 /\ req'.op \in ItemOps) =>
                resp'.status \in {200, 201} ]_vars

\* A second user has registered in the browser of the first and is the session user.
C12_Witness ==
    /\ req.op = "register" /\ resp.status = 200
    /\ Cardinality(users) = 2 /\ SESSION = resp.uid
    /\ \E u \in users : u.id # SESSION

Throws(r) == "exception" \in DOMAIN r

\* C14: a request during which the storage layer fails is answered 500 with a message
\* that holds nothing of the failure's detail.
C14_GenericFailure ==
    [][ (Answered /\ Throws(req') /\ (req'.op \in ItemOps => SESSION # NULL)) =>
          (resp'.status = 500 /\ resp'.detail = "") ]_vars

\* C15: a register, login, add, single-item update or replace whose body is not
\* well-formed JSON is answered 400 and changes no user, no item and no session.
C15_MalformedJson ==
    [][ ( /\ Answered /\ ~req'.json_ok
          /\ req'.op \in {"register", "login", "POST", "PUT", "PUT items.php"}
          /\ req'.op \in ItemOps => SESSION # NULL )
        => (resp'.status = 400 /\ UNCHANGED <<users, shopping_items, SESSION>>) ]_vars

\* C16: a fetch returns each item of the caller once and nothing else, every item that
\* is not completed before every completed one, and within both groups no item before
\* one that was added later.
C16_ListOrder ==
    [][ (Answered /\ req'.op = "GET" /\ SESSION # NULL) =>
          LET rows == resp'.rows
              own == OwnItems(shopping_items, SESSION)
          IN  /\ resp'.status = 200 /\ shopping_items' = shopping_items
              /\ Len(rows) = Cardinality(own)
              /\ { rows[i] : i \in DOMAIN rows } = { Select(r) : r \in own }
              /\ \A i, j \in DOMAIN rows :
                    i < j => /\ rows[i].completed => rows[j].completed
                             /\ rows[i].completed = rows[j].completed
                                   => rows[i].added_at >= rows[j].added_at ]_vars

\* A fetch has returned an item that is not completed before a completed item that was
\* added later.
C16_Witness ==
    /\ req.op = "GET" /\ resp.status = 200 /\ Len(resp.rows) = 2
    /\ ~resp.rows[1].completed /\ resp.rows[2].completed
    /\ resp.rows[1].added_at < resp.rows[2].added_at

\* The saved identity is not expired: it was saved with "remember me" less than seven
\* days ago, or without "remember me".
C17_NotExpired ==
    \E session \in getSession :
        session.rememberMe => Date_now - session.timestamp < 7 * 24 * 60 * 60 * 1000

C17_LoggedOut ==
    /\ sessionStorage' = {}
    /\ localStorage' = {}
    /\ currentUser' = <<>>
    /\ authSection' = "block"

\* C17: a page load with a saved identity that is not expired fetches the list and, if
\* the fetch succeeds, ends in the authenticated view as the saved user; if the fetch
\* fails (no network, or 401 from the server) it ends with the saved identity removed,
\* no current user and the login view.  A page load with an expired saved identity
\* removes it and ends in the login view without fetching.
C17_SavedSession ==
    [][ (checkSavedSession /\ getUser # <<>>) =>
          IF C17_NotExpired
          THEN /\ call'.requests = <<"getShoppingList">>
               /\ IF call'.error = ""
                  THEN authSection' = "none" /\ currentUser' = getUser
                  ELSE C17_LoggedOut
          ELSE /\ C17_LoggedOut
               /\ call'.requests = <<>>
               /\ UNCHANGED serverVars ]_vars

\* C18: a login attempt made with failedLoginAttempts at 5 and less than 5 minutes
\* after the fifth failure is refused: no request, nothing changes.  Any other attempt
\* with a filled-in form is made (loginUser is called); if it succeeds the counter is
\* 0, if it fails the counter is one more than before, counting from 0 again when
\* the lockout has passed, and a fifth failure starts 5 minutes of lockout.  The
\* counter never exceeds 5.
C18_Lockout ==
    /\ [][ \A form \in LoginForms, rememberMe \in BOOLEAN :
             clientLogin(form.username, form.password, rememberMe) =>
               IF failedLoginAttempts >= 5 /\ Date_now < lockoutUntil
               THEN /\ call'.requests = <<>>
                    /\ UNCHANGED serverVars
                    /\ UNCHANGED <<failedLoginAttempts, lockoutUntil, currentUser, authSection>>
               ELSE (Trim(form.username) # <<>> /\ form.password # <<>>) =>
                    /\ call'.requests = <<"loginUser">>
                    /\ IF call'.error = ""
                       THEN failedLoginAttempts' = 0
                       ELSE /\ failedLoginAttempts' =
                                 (IF failedLoginAttempts >= 5 THEN 0 ELSE failedLoginAttempts) + 1
                            /\ failedLoginAttempts' = 5 =>
                                 lockoutUntil' = Date_now + 5 * 60 * 1000 ]_vars
    /\ [](failedLoginAttempts <= 5)

\* An attempt has just been refused; the fifth failure was answered 401 by the server.
C18_Witness ==
    /\ failedLoginAttempts = 5
    /\ Date_now < lockoutUntil
    /\ call = Called("login", <<>>, "")
    /\ req.op = "login"
    /\ resp.status = 401

\* The points of a password, one for each requirement it meets.
C19_Points(password) ==
    Cardinality({ n \in 1..4 :
        \/ n = 1 /\ Len(password) >= 8
        \/ n = 2 /\ (\E i \in DOMAIN password : password[i] \in Lowercase)
                 /\ (\E i \in DOMAIN password : password[i] \in Uppercase)
        \/ n = 3 /\ \E i \in DOMAIN password : password[i] \in Numbers
        \/ n = 4 /\ \E i \in DOMAIN password : password[i] \in Special })

C19_Level(points) ==
    IF points < 2 THEN "very-weak"
    ELSE IF points < 3 THEN "weak"
    ELSE IF points < 4 THEN "medium"
    ELSE "strong"

\* The password field has just changed and the strength shown is that of its content:
\* points as required, in both versions, and the level of the points; "Aa1!aaaa" has 4
\* points and is strong, the empty password has 0 points and the complaint about the
\* length; "aaaaaaaa" has 1 point and the given level.
C19_Scores(level) ==
        registerPassword' # registerPassword =>
          /\ passwordFeedback'.points = C19_Points(registerPassword')
          /\ checkStrength_first(registerPassword') = C19_Points(registerPassword')
          /\ passwordFeedback'.strength = C19_Level(passwordFeedback'.points)
          /\ registerPassword' = <<"a", "a", "a", "a", "a", "a", "a", "a">> =>
                passwordFeedback'.points = 1 /\ passwordFeedback'.strength = level
          /\ registerPassword' = <<"A", "a", "1", "!", "a", "a", "a", "a">> =>
                passwordFeedback'.points = 4 /\ passwordFeedback'.strength = "strong"
          /\ registerPassword' = <<>> =>
                /\ passwordFeedback'.points = 0
                /\ \E i \in DOMAIN passwordFeedback'.feedback :
                      passwordFeedback'.feedback[i] = "Haslo powinno miec co najmniej 8 znakow"

\* C19 as stated: one point for each of length >= 8, both cases, a digit, a special
\* character; very-weak below 2 points, weak below 3, medium below 4, strong at 4;
\* "aaaaaaaa" has 1 point and is weak.
C19_StrengthAsStated == [][C19_Scores("weak")]_vars

\* C19: the same, with "aaaaaaaa" (1 point) very-weak, as the thresholds have it.
C19_Strength == [][C19_Scores("very-weak")]_vars

\* The strength of "aaaaaaaa" is shown.
C19_Witness ==
    /\ registerPassword = <<"a", "a", "a", "a", "a", "a", "a", "a">>
    /\ passwordFeedback.points = 1
    /\ passwordFeedback.strength = "very-weak"

\* What the claim compares of an item.
C20_Item(item) ==
    [id |-> item.id, text |-> item.text, quantity |-> item.quantity, unit |-> item.unit,
     description |-> item.description, completed |-> item.completed]

\* The in-memory list holds, once each, exactly the items the server stores for the
\* user of the page.
C20_InSync ==
    /\ { C20_Item(shoppingList[i]) : i \in DOMAIN shoppingList }
         = { C20_Item(r) : r \in { r \in shopping_items :
                                     \E u \in users : /\ u.username = currentUser
                                                      /\ r.user_id = u.id } }
    /\ \A i, j \in DOMAIN shoppingList : shoppingList[i].id = shoppingList[j].id => i = j

\* C20: when an add, toggle, delete, remove-checked or clear has settled, the in-memory
\* list holds exactly the items the server stores for the user, and a request that
\* failed has changed neither.
C20_ListInSync ==
    [][ ListOperation =>
          /\ C20_InSync'
          /\ call'.error # "" => UNCHANGED <<shoppingList, shopping_items>> ]_vars

\* C24: a PUT to the items endpoint removes stored items only when it is a replace that
\* succeeds; a PUT with neither an id nor action=replace leaves the stored items as
\* they are.
C24_PutDeletesNothing ==
    [][ ( /\ Answered /\ SESSION # NULL
          /\ req'.op \in {"PUT", "PUT items.php"}
          /\ ~(req'.action = "replace" /\ req'.itemId = NULL /\ resp'.status = 200) )
        => /\ { r.id : r \in shopping_items } \subseteq { r.id : r \in shopping_items' }
           /\ (req'.itemId = NULL /\ req'.action # "replace") =>
                 shopping_items' = shopping_items ]_vars
\* C21: cancel in edit mode sends no request, leaves edit mode and makes the list in
\* memory the list as it was when edit mode was entered, whatever was edited or deleted
\* in between; the server's list is not changed by the cancel.  The list cancel puts back
\* is originalList, so originalList has to be the list at the entry for as long as the
\* mode lasts.
C21_CancelRestores ==
    [][ /\ cancelListEditing =>
              /\ UNCHANGED serverVars
              /\ ~isEditingMode'
              /\ shoppingList' = originalList
        /\ (~isEditingMode /\ isEditingMode') => originalList' = shoppingList
        /\ (isEditingMode /\ isEditingMode') => originalList' = originalList ]_vars
\* C22: save-changes makes exactly one request, the replace of the server's list by the
\* whole list in memory; when it succeeds edit mode is left (the add and refresh controls
\* are enabled again), when it fails edit mode stays on; the list in memory is the same
\* before and after, and a failed save leaves the server's list as it was.
C22_Save ==
    [][ saveListChanges =>
          /\ call'.requests = <<"replaceShoppingList">>
          /\ shoppingList' = shoppingList
          /\ IF call'.error = ""
             THEN /\ req' = Request("PUT", NULL, "replace", TRUE, [items |-> shoppingList], 0)
                  /\ resp'.status = 200
                  /\ ~isEditingMode'
             ELSE /\ \/ req' = Request("PUT", NULL, "replace", TRUE,
                                       [items |-> shoppingList], 0)
                     \/ UNCHANGED serverVars
                  /\ shopping_items' = shopping_items
                  /\ isEditingMode' ]_vars

\* A list of one item or more has been saved.
C22_Witness ==
    /\ call = Called("saveListChanges", <<"replaceShoppingList">>, "")
    /\ req.op = "PUT" /\ req.action = "replace" /\ req.data.items # <<>>
    /\ ~isEditingMode
\* C23: when a per-field edit made in edit mode has settled, the value of the field in
\* memory and the value the server stores for it are equal: both the new value when the
\* request succeeded, both the old one when it failed.
C23_FieldInSync ==
    [][ \A id \in ItemIds, edit \in FieldEdits :
          updateItemDuringEditing(id, edit.field, edit.value) =>
             \A r \in shopping_items' :
                r.id = id =>
                   shoppingList'[findIndex(shoppingList', id)][edit.field] = r[edit.field] ]_vars
\* C29: while no user is logged in the controller is in normal mode, and so it is when
\* a login has just succeeded: logging out of edit mode leaves edit mode.
C29_NormalWhenLoggedOut ==
    (currentUser = <<>> \/ call = Called("login", <<"loginUser">>, "")) => ~isEditingMode
\* C26: after a bulk save that succeeded every id of the list in memory is the id of an
\* item the server stores (so that a toggle or delete that follows is not answered 404).
C26_IdsStored ==
    [][ (saveListChanges /\ call'.error = "") =>
          \A i \in DOMAIN shoppingList' :
             \E r \in shopping_items' : r.id = shoppingList'[i].id ]_vars
\* C25: however per-row deletes made in edit mode interleave, two started before either
\* has settled included, a removeItemDuringEditing(id) that succeeded takes the item
\* with that id, and no other item, out of the list in memory.
C25_RemovesRequested ==
    [][ \A i \in DOMAIN calls :
          (Settle(i) /\ calls[i].fn = "removeItemDuringEditing" /\ calls[i].error = "") =>
             shoppingList' = SelectSeq(shoppingList, LAMBDA item : item.id # calls[i].id) ]_vars
\* C27: two toggles of the same item, the second started before the first has settled,
\* both successful, leave the item with the completed value it had before the first, in
\* memory and on the server.
C27_DoubleToggle ==
    \A i, j \in DOMAIN calls :
       ( /\ i < j
         /\ calls[i].fn = "toggleItem" /\ calls[j].fn = "toggleItem"
         /\ calls[i].id = calls[j].id
         /\ calls[j].overlaps
         /\ calls[i].state = "settled" /\ calls[j].state = "settled"
         /\ calls[i].error = "" /\ calls[j].error = "" )
       => /\ \A k \in DOMAIN shoppingList :
                shoppingList[k].id = calls[i].id =>
                   shoppingList[k].completed = ~calls[i].data.completed
          /\ \A r \in shopping_items :
                r.id = calls[i].id => r.completed = ~calls[i].data.completed
\* C28: a fetch of the list started before an add, toggle or delete succeeded and answered
\* after it does not undo the change: when a fetch and the other handlers that ran with
\* it have all settled, all successful, the list in memory holds the server's items.
C28_FetchKeepsChanges ==
    ( /\ \E i \in DOMAIN calls : calls[i].fn = "loadShoppingList"
      /\ \A i \in DOMAIN calls : calls[i].state = "settled" /\ calls[i].error = "" )
    => C20_InSync
\* C30: every password the registration form of the client lets through (a strength that
\* is neither very-weak nor weak) is one the server accepts (eight characters or more):
\* the server never rejects a registration of the client for a password too short.
C30_GateImpliesServerRule ==
    [][ \A form \in RegisterForms :
          ( /\ clientRegister(form.username, form.confirm, FALSE)
            /\ call'.requests = <<"registerUser">> )
          => /\ Len(registerPassword) >= 8
             /\ resp'.error # "Password must be at least 8 characters long" ]_vars

====
